---- MODULE Spec2Model ----
(***************************************************************************)
(* Expat Ops dashboard: the dashboard controller (App.tsx), the            *)
(* persistence adapter (firestoreService.ts), the identity adapter         *)
(* (authService.ts) and the timeline organizer (TimelineView.tsx).         *)
(*                                                                         *)
(* Dates are day numbers: every date the program builds is a UTC midnight  *)
(* (new Date(value + 'T00:00:00Z'), new Date('YYYY-MM-DD')), so comparing  *)
(* getTime() values is comparing day numbers.  The document store's        *)
(* updatedAt stamp is left out of the task records: nothing reads it.      *)
(***************************************************************************)
EXTENDS Integers, Sequences, FiniteSets, TLC

\* ---------------------------------------------------------------- bounds
MaxDay == 2          \* calendar days 1..MaxDay
MaxDocs == 1         \* documents created while the model runs
MaxSubs == 2         \* subscriptions ever opened (one per sign-in)
MaxInflight == 1     \* remote requests waiting for the store at one time
MaxListLen == 4      \* tasks in a list handed to the timeline organizer
MaxEditDay == 1      \* days the date input of a card offers, 1..MaxEditDay
MaxKpiLen == 3       \* tasks in a list the KPIs are computed from
MaxSortLen == 3      \* tasks in a list that is reordered by hand
MaxExportLen == 2    \* tasks in a list that is exported

\* ------------------------------------------------------------ vocabulary
Users == {"u1", "u2"}
NoUser == "none"
NoSub == 0
NoOrder == -1        \* a document without a numeric orderIndex
Statuses == {"todo", "progress", "done"}
Days == 1..MaxDay

\* A date value as the program holds it: null, a Date built by a local
\* edit, or the store's Timestamp.
NoDate == [kind |-> "null", day |-> 0]
DateOf(d) == [kind |-> "Date", day |-> d]
TimestampOf(d) == [kind |-> "Timestamp", day |-> d]

\* An ISO-8601 string of a day, and what JSON.parse reads back for a
\* Timestamp that JSON.stringify wrote: an object { seconds, nanoseconds }.
StringOf(d) == [kind |-> "String", day |-> d]
ObjectOf(d) == [kind |-> "Object", day |-> d]

\* JavaScript truthiness of a date value: only null is falsy.
Truthy(date) == date.kind # "null"

\* parseDate: null when nothing usable, else the time value (a day number).
NullTime == 0
parseDate(date) ==
  IF ~Truthy(date) THEN NullTime
  ELSE IF date.kind = "Timestamp" THEN date.day
  ELSE IF date.kind = "Date" THEN date.day
  ELSE IF date.kind = "String" THEN date.day
  ELSE NullTime

\* ------------------------------------------------------------- sequences
Range(s) == {s[i] : i \in DOMAIN s}

\* Array.prototype.filter
RECURSIVE Filter(_, _)
Filter(s, keep) ==
  IF s = <<>> THEN <<>>
  ELSE (IF Head(s) \in keep THEN <<Head(s)>> ELSE <<>>) \o Filter(Tail(s), keep)

Reverse(s) == [i \in 1..Len(s) |-> s[Len(s) + 1 - i]]

\* Array.prototype.sort on a short array (V8: one initial run, then binary
\* insertion).  a is a sequence of positions of the array being sorted and
\* c[<<i, j>>] is the comparator's result on the elements at positions i, j.
RECURSIVE CountRun(_, _, _, _)
CountRun(a, c, desc, len) ==
  IF len >= Len(a) THEN len
  ELSE LET order == c[<<a[len + 1], a[len]>>]
       IN IF desc /\ order >= 0 THEN len
          ELSE IF ~desc /\ order < 0 THEN len
          ELSE CountRun(a, c, desc, len + 1)

RECURSIVE BinarySearch(_, _, _, _, _)
BinarySearch(a, c, pivot, left, right) ==
  IF left >= right THEN left
  ELSE LET mid == left + ((right - left) \div 2)
       IN IF c[<<pivot, a[mid]>>] < 0
          THEN BinarySearch(a, c, pivot, left, mid)
          ELSE BinarySearch(a, c, pivot, mid + 1, right)

RECURSIVE BinaryInsertionSort(_, _, _)
BinaryInsertionSort(a, c, start) ==
  IF start > Len(a) THEN a
  ELSE LET pivot == a[start]
           left == BinarySearch(a, c, pivot, 1, start)
           moved == SubSeq(a, 1, left - 1) \o <<pivot>> \o SubSeq(a, left, start - 1)
                      \o SubSeq(a, start + 1, Len(a))
       IN BinaryInsertionSort(moved, c, start + 1)

\* A sort that orders by the comparator but lets equal elements swap.
ArraySortUnstable(s, c) ==
  IF Len(s) < 2 THEN s
  ELSE LET a == Reverse([i \in 1..Len(s) |-> i])
           order == BinaryInsertionSort(a, c, 2)
       IN [i \in 1..Len(s) |-> s[order[i]]]

ArraySort(s, c) ==
  IF Len(s) < 2 THEN s
  ELSE LET a == [i \in 1..Len(s) |-> i]
           desc == c[<<a[2], a[1]>>] < 0
           run == CountRun(a, c, desc, 2)
           made == IF desc THEN Reverse(SubSeq(a, 1, run)) \o SubSeq(a, run + 1, Len(a))
                   ELSE a
           order == BinaryInsertionSort(made, c, run + 1)
       IN [i \in 1..Len(s) |-> s[order[i]]]

\* ------------------------------------------------------ timeline organizer
\* aTime - bTime with Infinity standing in for an unparsable date; NaN
\* (Infinity - Infinity) is what sort treats as 0.
CompareByDate(a, b) ==
  LET aTime == parseDate(a.date)
      bTime == parseDate(b.date)
  IN IF aTime = NullTime /\ bTime = NullTime THEN 0
     ELSE IF aTime = NullTime THEN 1
     ELSE IF bTime = NullTime THEN -1
     ELSE aTime - bTime

\* The results of that comparator on every pair of positions of a list.
DateMatrix(s) ==
  [p \in (1..Len(s)) \X (1..Len(s)) |-> CompareByDate(s[p[1]], s[p[2]])]

sortedStepsOf(list) ==
  LET withDates == Filter(list, {s \in Range(list) : Truthy(s.date)})
      noDates == Filter(list, {s \in Range(list) : ~Truthy(s.date)})
  IN ArraySort(withDates, DateMatrix(withDates)) \o noDates

\* isBeforeRelocation comparing with <= in place of <.
isBeforeRelocationInclusive(step, relocation) ==
  LET relocationDate == parseDate(relocation)
      stepDate == parseDate(step.date)
  IN IF relocationDate = NullTime THEN "null"
     ELSE IF stepDate = NullTime THEN "null"
     ELSE IF stepDate <= relocationDate THEN "true" ELSE "false"

\* isBeforeRelocation: "null" when undetermined, else "true" / "false".
isBeforeRelocation(step, relocation) ==
  LET relocationDate == parseDate(relocation)
      stepDate == parseDate(step.date)
  IN IF relocationDate = NullTime THEN "null"
     ELSE IF stepDate = NullTime THEN "null"
     ELSE IF stepDate < relocationDate THEN "true" ELSE "false"

beforeStepsOf(sorted, relocation) ==
  Filter(sorted, {s \in Range(sorted) : isBeforeRelocation(s, relocation) = "true"})

\* afterSteps taking every step that is not before.
afterStepsLoose(sorted, relocation) ==
  Filter(sorted, {s \in Range(sorted) : isBeforeRelocation(s, relocation) # "true"})

afterStepsOf(sorted, relocation) ==
  Filter(sorted, {s \in Range(sorted) : isBeforeRelocation(s, relocation) = "false"})

undatedStepsOf(sorted) ==
  Filter(sorted, {s \in Range(sorted) : ~Truthy(s.date)})

\* The civil calendar behind Date.getFullYear / Date.getMonth, on day
\* numbers counted from 1970-01-01 (day 0); getMonth is 0-based.
IsLeapYear(y) == (y % 4 = 0 /\ y % 100 # 0) \/ y % 400 = 0
DaysInYear(y) == IF IsLeapYear(y) THEN 366 ELSE 365
DaysInMonth(y, m) ==
  IF m = 1 THEN (IF IsLeapYear(y) THEN 29 ELSE 28)
  ELSE IF m \in {3, 5, 8, 10} THEN 30 ELSE 31

RECURSIVE YearFrom(_, _)
YearFrom(y, d) ==
  IF d < DaysInYear(y) THEN [year |-> y, dayOfYear |-> d]
  ELSE YearFrom(y + 1, d - DaysInYear(y))

RECURSIVE MonthFrom(_, _, _)
MonthFrom(y, m, d) ==
  IF d < DaysInMonth(y, m) THEN m ELSE MonthFrom(y, m + 1, d - DaysInMonth(y, m))

getFullYear(time) == YearFrom(1970, time).year
getMonth(time) == MonthFrom(getFullYear(time), 0, YearFrom(1970, time).dayOfYear)

\* A group key that leaves the year out.
MonthKeyWithoutYear(year, month) == ToString(month)

\* The group key `${year}-${month}`.
MonthKey(year, month) == ToString(year) \o "-" \o ToString(month)

\* One forEach step of groupStepsByMonth: groups after visiting `step`.
GroupStep(groups, step) ==
  LET stepDate == parseDate(step.date)
      year == getFullYear(stepDate)
      month == getMonth(stepDate)
      key == MonthKey(year, month)
      n == Len(groups)
  IN IF stepDate = NullTime THEN groups
     ELSE IF n = 0 \/ groups[n].key # key
     THEN Append(groups, [key |-> key, year |-> year, month |-> month, steps |-> <<step>>])
     ELSE [groups EXCEPT ![n].steps = Append(@, step)]

RECURSIVE GroupFrom(_, _)
GroupFrom(groups, stepsToGroup) ==
  IF stepsToGroup = <<>> THEN groups
  ELSE GroupFrom(GroupStep(groups, Head(stepsToGroup)), Tail(stepsToGroup))

groupStepsByMonth(stepsToGroup) == GroupFrom(<<>>, stepsToGroup)

allDatedStepsOf(sorted) == Filter(sorted, {s \in Range(sorted) : Truthy(s.date)})

\* What one render of TimelineView derives from its props.
RenderTimeline(list, relocation) ==
  LET sorted == sortedStepsOf(list)
  IN [sortedSteps |-> sorted,
      beforeSteps |-> beforeStepsOf(sorted, relocation),
      afterSteps |-> afterStepsOf(sorted, relocation),
      undatedSteps |-> undatedStepsOf(sorted),
      allStepsGrouped |-> groupStepsByMonth(allDatedStepsOf(sorted))]

\* The cards of the columns of `groups`, left to right.
RECURSIVE GroupCards(_)
GroupCards(groups) ==
  IF groups = <<>> THEN <<>> ELSE Head(groups).steps \o GroupCards(Tail(groups))

\* The cards the desktop timeline shows, left to right: the month columns
\* and the Unscheduled column when a relocation day is set and some month
\* column exists, the flat list when no relocation day is set, else the
\* 'No tasks with dates yet' placeholder and no card.
DesktopCards(rendered, relocation) ==
  IF Truthy(relocation) /\ Len(rendered.allStepsGrouped) > 0
  THEN GroupCards(rendered.allStepsGrouped)
         \o (IF Len(rendered.undatedSteps) > 0 THEN rendered.undatedSteps ELSE <<>>)
  ELSE IF ~Truthy(relocation) THEN rendered.sortedSteps
  ELSE <<>>

\* ------------------------------------------------------------------ state
VARIABLES
  authUser,        \* auth.currentUser of the identity provider
  user,            \* controller state: the signed-in user or NoUser
  steps,           \* controller state: the local task collection
  isLoaded,        \* controller state
  unsubscribe,     \* controller state: the closer kept by setUnsubscribe
  relocationDate,  \* controller state: relocationConfig.relocationDate
  view,            \* what TimelineView derived at the last render
  store,           \* the documents of the 'steps' collection
  issuedIds,       \* document ids the store has ever assigned
  clock,           \* Timestamp.now() of the next creation
  subs,            \* open snapshot listeners, [sid, owner]
  dirty,           \* listeners with a snapshot to deliver
  nextSub,         \* listeners opened so far
  inflight,        \* remote requests issued and not yet settled, in issue order
  console,         \* the last console.error message, "" before the first
  download,        \* the last exported file as JSON.parse reads it back
  last,            \* the operation that ran last
  teamMembers,     \* controller state: the team member names, in order
  settings,        \* the settings document of each user, or NoSettings
  loading,         \* getUserSettings calls not yet resolved, [sid, owner]
  currentIndex,    \* CarouselView state: the index of the card shown, from 0
  startDate,       \* controller state: relocationConfig.startDate
  endDate,         \* controller state: relocationConfig.endDate
  timeline         \* TimelineView: the timelineMonths computation and its result

vars == <<authUser, user, steps, isLoaded, unsubscribe, relocationDate, view, store,
          issuedIds, clock, subs, dirty, nextSub, inflight, console, download, last,
          teamMembers, settings, loading, currentIndex, startDate, endDate, timeline>>

NewIds == 1..MaxDocs
Fields == {"date"}
EditDates == {NoDate} \cup {DateOf(d) : d \in 1..MaxEditDay}
ConfigDates == {NoDate} \cup {DateOf(d) : d \in Days}

\* The values the card inputs pass to onUpdateStep for a field.
ValuesOf(field) == EditDates

\* Every Firestore auto-id is 20 alphanumeric characters: none starts 'demo-'.
IsDemoId(id) == FALSE

\* { ...doc, ...updates }
Merge(doc, updates) ==
  [k \in DOMAIN doc |-> IF k \in DOMAIN updates THEN updates[k] ELSE doc[k]]

\* The store keeps a Date as its native timestamp.
ToStored(updates) ==
  [k \in DOMAIN updates |->
     IF k = "date" /\ updates[k].kind = "Date" THEN TimestampOf(updates[k].day)
     ELSE updates[k]]

\* ---------------------------------------------------- persistence adapter
\* The comparator without the orderIndex test.
CompareByCreation(a, b) == b.createdAt - a.createdAt

\* The subscription's comparator: orderIndex when both have one, else
\* creation time, newest first.
CompareByOrder(a, b) ==
  IF a.orderIndex # NoOrder /\ b.orderIndex # NoOrder
  THEN a.orderIndex - b.orderIndex
  ELSE b.createdAt - a.createdAt

\* The results of that comparator on every pair of positions of a list.
OrderMatrix(s) ==
  [p \in (1..Len(s)) \X (1..Len(s)) |-> CompareByOrder(s[p[1]], s[p[2]])]

\* snapshot.forEach: the query's documents in document-id order.
RECURSIVE DocsInIdOrder(_)
DocsInIdOrder(docs) ==
  IF docs = {} THEN <<>>
  ELSE LET first == CHOOSE d \in docs : \A e \in docs : d.id <= e.id
       IN <<first>> \o DocsInIdOrder(docs \ {first})

\* What onSnapshot hands to the callback for the query userId == owner.
SnapshotSteps(docs, owner) ==
  LET found == DocsInIdOrder({d \in docs : d.userId = owner})
  IN ArraySort(found, OrderMatrix(found))

\* The listeners a change to the documents of owner wakes up.
\* A store that notifies no listener of a write.
WokenNone(owner) == {}

Woken(owner) == {s.sid : s \in {t \in subs : t.owner = owner}}

\* The platform's access rule: the caller must own the document.
Allowed(req) ==
  IF req.op = "create" THEN req.uid = req.updates.userId
  ELSE \E d \in store : d.id = req.id /\ d.userId = req.uid

\* console.error(message, error) of a handler's catch.
NotAuthenticated == "User not authenticated"
Logged(message, error) == message \o ": " \o error

\* The adapter without the test of the current user.
AdapterCallUnchecked(req, message) ==
  /\ inflight' = Append(inflight, req)
  /\ console' = console

\* addStep / updateStep / deleteStep up to the call into the store: throw
\* when nobody is signed in, else hand the request over.
AdapterCall(req, message) ==
  IF authUser = NoUser
  THEN /\ inflight' = inflight
       /\ console' = Logged(message, NotAuthenticated)
  ELSE /\ inflight' = Append(inflight, req)
       /\ console' = console

Render == view' = RenderTimeline(steps', relocationDate')

\* Nothing exported yet.
NoDownload == [exported |-> FALSE]

\* timelineMonths of a configuration without start or end date.
NoMonths == [pc |-> "done", months |-> <<>>, relocationIndex |-> -1]

\* A user without a settings document: getUserSettings resolves to null.
NoSettings == [exists |-> FALSE]

\* ------------------------------------------------------------------- init
Init ==
  /\ authUser = NoUser
  /\ user = NoUser
  /\ steps = <<>>
  /\ isLoaded = FALSE
  /\ unsubscribe = NoSub
  /\ relocationDate = NoDate
  /\ view = RenderTimeline(<<>>, NoDate)
  /\ store = {}
  /\ issuedIds = {}
  /\ clock = 1
  /\ subs = {}
  /\ dirty = {}
  /\ nextSub = 1
  /\ inflight = <<>>
  /\ console = ""
  /\ download = NoDownload
  /\ last = "init"
  /\ teamMembers = <<>>
  /\ settings = [u \in Users |-> NoSettings]
  /\ loading = {}
  /\ currentIndex = 0
  /\ startDate = NoDate
  /\ endDate = NoDate
  /\ timeline = NoMonths

\* --------------------------------------------------- dashboard controller
\* The auth listener is installed once (the effect's only dependency never
\* changes), so the `unsubscribe` it reads is the one of the first render.
EffectUnsubscribe == NoSub

\* onAuthChange callback with a user: open a subscription to that user's steps.
AuthSignedIn(u) ==
  /\ u \in Users
  /\ u # authUser
  /\ nextSub <= MaxSubs
  /\ authUser' = u
  /\ user' = u
  /\ subs' = subs \cup {[sid |-> nextSub, owner |-> u]}
  /\ dirty' = dirty \cup {nextSub}
  /\ unsubscribe' = nextSub
  /\ nextSub' = nextSub + 1
  /\ loading' = loading \cup {[sid |-> nextSub, owner |-> u]}
  /\ last' = "signIn"
  /\ UNCHANGED <<steps, isLoaded, relocationDate, store, issuedIds, clock, inflight, console>>
  /\ Render
  /\ UNCHANGED <<download, teamMembers, settings, currentIndex, startDate, endDate,
                 timeline>>

\* onAuthChange callback with null: empty the collection, close the
\* subscription the callback knows of.
AuthSignedOut ==
  /\ authUser # NoUser
  /\ authUser' = NoUser
  /\ user' = NoUser
  /\ steps' = <<>>
  /\ isLoaded' = TRUE
  /\ IF EffectUnsubscribe # NoSub
     THEN /\ subs' = {s \in subs : s.sid # EffectUnsubscribe}
          /\ dirty' = dirty \ {EffectUnsubscribe}
     ELSE UNCHANGED <<subs, dirty>>
  /\ last' = "signOut"
  /\ UNCHANGED <<unsubscribe, relocationDate, store, issuedIds, clock, nextSub, inflight, console>>
  /\ Render
  /\ UNCHANGED <<download, teamMembers, settings, loading, currentIndex, startDate,
                 endDate, timeline>>

\* signOut() of the identity adapter: the provider forgets the current
\* user; the auth listener has not run yet.
SignOut ==
  /\ authUser # NoUser
  /\ authUser' = NoUser
  /\ last' = "providerSignOut"
  /\ UNCHANGED <<user, steps, isLoaded, unsubscribe, relocationDate, store, issuedIds, clock,
                 subs, dirty, nextSub, inflight, console>>
  /\ Render
  /\ UNCHANGED <<download, teamMembers, settings, loading, currentIndex, startDate,
                 endDate, timeline>>

\* The auth listener running after signOut(): the callback with null.
AuthCallbackNull ==
  /\ authUser = NoUser
  /\ user # NoUser
  /\ user' = NoUser
  /\ steps' = <<>>
  /\ isLoaded' = TRUE
  /\ IF EffectUnsubscribe # NoSub
     THEN /\ subs' = {s \in subs : s.sid # EffectUnsubscribe}
          /\ dirty' = dirty \ {EffectUnsubscribe}
     ELSE UNCHANGED <<subs, dirty>>
  /\ last' = "signOut"
  /\ UNCHANGED <<authUser, unsubscribe, relocationDate, store, issuedIds, clock, nextSub,
                 inflight, console>>
  /\ Render
  /\ UNCHANGED <<download, teamMembers, settings, loading, currentIndex, startDate,
                 endDate, timeline>>

\* The callback given to subscribeToUserSteps.
SnapshotPush(sub) ==
  /\ sub \in subs
  /\ sub.sid \in dirty
  /\ steps' = SnapshotSteps(store, sub.owner)
  /\ isLoaded' = TRUE
  /\ dirty' = dirty \ {sub.sid}
  /\ last' = "push"
  /\ UNCHANGED <<authUser, user, unsubscribe, relocationDate, store, issuedIds, clock, subs,
                 nextSub, inflight, console>>
  /\ Render
  /\ UNCHANGED <<download, teamMembers, settings, loading, currentIndex, startDate,
                 endDate, timeline>>

\* The map without the id test.
MapFieldEvery(list, id, field, value) ==
  [i \in 1..Len(list) |-> Merge(list[i], field :> value)]

\* prev.map(s => s.id === id ? { ...s, [field]: value } : s)
MapField(list, id, field, value) ==
  [i \in 1..Len(list) |->
     IF list[i].id = id THEN Merge(list[i], field :> value) ELSE list[i]]

PatchRequest(id, field, value) ==
  [op |-> "patch", id |-> id, uid |-> authUser, updates |-> field :> value]

\* The body of handleUpdateStep.
UpdateStep(id, field, value) ==
  /\ steps' = MapField(steps, id, field, value)
  /\ IF user # NoUser /\ ~IsDemoId(id)
     THEN AdapterCall(PatchRequest(id, field, value), "Error saving to Firebase")
     ELSE UNCHANGED <<inflight, console>>
  /\ UNCHANGED <<authUser, user, isLoaded, unsubscribe, relocationDate, store, issuedIds,
                 clock, subs, dirty, nextSub>>
  /\ Render
  /\ UNCHANGED <<download, teamMembers, settings, loading, currentIndex, startDate,
                 endDate, timeline>>

HandleUpdateStep(id, field, value) ==
  /\ \E s \in Range(steps) : s.id = id
  /\ Len(inflight) < MaxInflight
  /\ UpdateStep(id, field, value)
  /\ last' = "update"

\* handleUpdateStep while up to `bound` requests are in flight.
HandleUpdateStepUpTo(bound, id, field, value) ==
  /\ \E s \in Range(steps) : s.id = id
  /\ Len(inflight) < bound
  /\ UpdateStep(id, field, value)
  /\ last' = "update"

\* The cycle with done left where it is.
nextStuck(current) ==
  IF current = "todo" THEN "progress" ELSE "done"

next(current) ==
  IF current = "todo" THEN "progress"
  ELSE IF current = "progress" THEN "done"
  ELSE "todo"

\* The status button passes the status of the card it sits on.
HandleToggleStatus(id) ==
  /\ \E s \in Range(steps) : s.id = id
  /\ Len(inflight) < MaxInflight
  /\ LET current == (CHOOSE s \in Range(steps) : s.id = id).status
     IN UpdateStep(id, "status", next(current))
  /\ last' = "toggle"

DeleteRequest(id) ==
  [op |-> "delete", id |-> id, uid |-> authUser, updates |-> <<>>]

\* handleDeleteStep without the confirm() test.
HandleDeleteStepUnasked(id, confirmed) ==
  /\ \E s \in Range(steps) : s.id = id
  /\ Len(inflight) < MaxInflight
  /\ steps' = Filter(steps, {s \in Range(steps) : s.id # id})
  /\ IF user # NoUser /\ ~IsDemoId(id)
     THEN AdapterCall(DeleteRequest(id), "Error deleting from Firebase")
     ELSE UNCHANGED <<inflight, console>>
  /\ last' = IF confirmed THEN "deleteConfirmed" ELSE "deleteDeclined"
  /\ UNCHANGED <<authUser, user, isLoaded, unsubscribe, relocationDate, store, issuedIds,
                 clock, subs, dirty, nextSub>>
  /\ Render
  /\ UNCHANGED <<download, teamMembers, settings, loading, currentIndex, startDate,
                 endDate, timeline>>

HandleDeleteStep(id, confirmed) ==
  /\ \E s \in Range(steps) : s.id = id
  /\ Len(inflight) < MaxInflight
  /\ IF confirmed
     THEN /\ steps' = Filter(steps, {s \in Range(steps) : s.id # id})
          /\ IF user # NoUser /\ ~IsDemoId(id)
             THEN AdapterCall(DeleteRequest(id), "Error deleting from Firebase")
             ELSE UNCHANGED <<inflight, console>>
          /\ last' = "deleteConfirmed"
     ELSE /\ UNCHANGED <<steps, inflight, console>>
          /\ last' = "deleteDeclined"
  /\ UNCHANGED <<authUser, user, isLoaded, unsubscribe, relocationDate, store, issuedIds,
                 clock, subs, dirty, nextSub>>
  /\ Render
  /\ UNCHANGED <<download, teamMembers, settings, loading, currentIndex, startDate,
                 endDate, timeline>>

\* The argument handleAddStep passes to addStep.
StepDefaults(orderIndex) ==
  [status |-> "todo", date |-> NoDate, budgetEstimated |-> 0,
   budgetActual |-> 0, budgetDeferred |-> 0, orderIndex |-> orderIndex]

\* { userId: uid, ...step }: a userId of the caller's wins.
AddStepDataCallerWins(step, uid) ==
  [k \in DOMAIN step \cup {"userId"} |-> IF k \in DOMAIN step THEN step[k] ELSE uid]

\* { ...step, userId: user.uid }: the data addStep hands to addDoc.
AddStepData(step, uid) ==
  [k \in DOMAIN step \cup {"userId"} |-> IF k = "userId" THEN uid ELSE step[k]]

\* The document addStep writes: the caller's fields, then the owner.
NewStep(uid, orderIndex) == AddStepData(StepDefaults(orderIndex), uid)

CreateRequest ==
  [op |-> "create", id |-> 0, uid |-> authUser, updates |-> NewStep(authUser, Len(steps))]

\* handleAddStep without the signed-in test.
HandleAddStepUnguarded ==
  /\ Len(inflight) < MaxInflight
  /\ inflight' = Append(inflight, CreateRequest)
  /\ last' = "add"
  /\ UNCHANGED <<authUser, user, steps, isLoaded, unsubscribe, relocationDate, store,
                 issuedIds, clock, subs, dirty, nextSub, console>>
  /\ Render
  /\ UNCHANGED <<download, teamMembers, settings, loading, currentIndex, startDate,
                 endDate, timeline>>

\* handleAddStep that also puts the new task into the local collection.
HandleAddStepOptimistic ==
  /\ Len(inflight) < MaxInflight
  /\ user # NoUser
  /\ steps' = Append(steps, NewStep(authUser, Len(steps)) @@ [id |-> 0, createdAt |-> clock])
  /\ AdapterCall(CreateRequest, "Error adding step")
  /\ last' = "add"
  /\ UNCHANGED <<authUser, user, isLoaded, unsubscribe, relocationDate, store,
                 issuedIds, clock, subs, dirty, nextSub>>
  /\ Render
  /\ UNCHANGED <<download, teamMembers, settings, loading, currentIndex, startDate,
                 endDate, timeline>>

HandleAddStep ==
  /\ Len(inflight) < MaxInflight
  /\ IF user = NoUser
     THEN /\ UNCHANGED <<inflight, console>>
          /\ last' = "addRejected"
     ELSE /\ AdapterCall(CreateRequest, "Error adding step")
          /\ last' = "add"
  /\ UNCHANGED <<authUser, user, steps, isLoaded, unsubscribe, relocationDate, store,
                 issuedIds, clock, subs, dirty, nextSub>>
  /\ Render
  /\ UNCHANGED <<download, teamMembers, settings, loading, currentIndex, startDate,
                 endDate, timeline>>

\* handleConfigUpdate('relocationDate', value) of the date settings.
HandleConfigUpdate(date) ==
  /\ date # relocationDate
  /\ relocationDate' = date
  /\ last' = "config"
  /\ UNCHANGED <<authUser, user, steps, isLoaded, unsubscribe, store, issuedIds, clock, subs,
                 dirty, nextSub, inflight, console>>
  /\ Render
  /\ UNCHANGED <<download, teamMembers, settings, loading, currentIndex, startDate,
                 endDate, timeline>>


\* handleSort numbering the positions from 1.
HandleSortFromOne(newSteps) ==
  /\ steps' = newSteps
  /\ IF user # NoUser
     THEN LET saved == SelectSeq(newSteps, LAMBDA step : ~IsDemoId(step.id))
              index(step) == CHOOSE i \in 1..Len(newSteps) : newSteps[i] = step
          IN IF authUser = NoUser
             THEN /\ inflight' = inflight
                  /\ console' = IF saved = <<>> THEN console
                             ELSE Logged("Error saving order", NotAuthenticated)
             ELSE /\ inflight' = inflight \o
                       [k \in 1..Len(saved) |->
                          PatchRequest(saved[k].id, "orderIndex", index(saved[k]))]
                  /\ console' = console
     ELSE UNCHANGED <<inflight, console>>
  /\ last' = "sort"
  /\ UNCHANGED <<authUser, user, isLoaded, unsubscribe, relocationDate, store, issuedIds,
                 clock, subs, dirty, nextSub>>
  /\ Render
  /\ UNCHANGED <<download, teamMembers, settings, loading, currentIndex, startDate,
                 endDate, timeline>>

\* handleSort: the new order locally, then one updateStep per task with
\* its 0-based position; a call that throws is logged by its catch.
HandleSort(newSteps) ==
  /\ steps' = newSteps
  /\ IF user # NoUser
     THEN LET saved == SelectSeq(newSteps, LAMBDA step : ~IsDemoId(step.id))
              index(step) == (CHOOSE i \in 1..Len(newSteps) : newSteps[i] = step) - 1
          IN IF authUser = NoUser
             THEN /\ inflight' = inflight
                  /\ console' = IF saved = <<>> THEN console
                             ELSE Logged("Error saving order", NotAuthenticated)
             ELSE /\ inflight' = inflight \o
                       [k \in 1..Len(saved) |->
                          PatchRequest(saved[k].id, "orderIndex", index(saved[k]))]
                  /\ console' = console
     ELSE UNCHANGED <<inflight, console>>
  /\ last' = "sort"
  /\ UNCHANGED <<authUser, user, isLoaded, unsubscribe, relocationDate, store, issuedIds,
                 clock, subs, dirty, nextSub>>
  /\ Render
  /\ UNCHANGED <<download, teamMembers, settings, loading, currentIndex, startDate,
                 endDate, timeline>>

\* ------------------------------------------------------------------- KPI
\* A JavaScript number: NaN, or a value.
NaN == [nan |-> TRUE, value |-> 0]
Num(v) == [nan |-> FALSE, value |-> v]

\* x || 0 on a number: NaN and 0 are falsy.
OrZero(x) == IF x.nan \/ x.value = 0 THEN 0 ELSE x.value

\* A field the document does not have reads as undefined.
Undefined == -1000000

\* ToNumber of a field value: undefined is NaN.
ToNumber(v) == IF v = Undefined THEN NaN ELSE Num(v)

\* x + y on numbers: NaN if either is.
Plus(x, y) == IF x.nan \/ y.nan THEN NaN ELSE Num(x.value + y.value)

\* steps.reduce((sum, s) => sum + s[field], 0)
RECURSIVE ReduceSum(_, _)
ReduceSum(list, field) ==
  IF list = <<>> THEN Num(0)
  ELSE Plus(ReduceSum(SubSeq(list, 1, Len(list) - 1), field),
            ToNumber(list[Len(list)][field]))

\* steps.reduce((sum, s) => sum + (s[field] || 0), 0)
RECURSIVE ReduceSumOrZero(_, _)
ReduceSumOrZero(list, field) ==
  IF list = <<>> THEN Num(0)
  ELSE Plus(ReduceSumOrZero(SubSeq(list, 1, Len(list) - 1), field),
            Num(OrZero(ToNumber(list[Len(list)][field]))))

\* Math.round of the quotient p / q of two naturals, q > 0: floor(p/q + 1/2).
MathRound(p, q) == (2 * p + q) \div (2 * q)

\* Math.floor in place of Math.round.
progressFloored ==
  LET done == Len(SelectSeq(steps, LAMBDA s : s.status = "done"))
  IN OrZero(IF Len(steps) = 0 THEN NaN ELSE Num((100 * done) \div Len(steps)))

totalEst == ReduceSum(steps, "budgetEstimated")
totalAct == ReduceSum(steps, "budgetActual")
totalDeferred == ReduceSumOrZero(steps, "budgetDeferred")

\* 0 / 0 is NaN, Math.round(NaN) is NaN, and NaN || 0 is 0.
progress ==
  LET done == Len(SelectSeq(steps, LAMBDA s : s.status = "done"))
  IN OrZero(IF Len(steps) = 0 THEN NaN ELSE Num(MathRound(100 * done, Len(steps))))


\* ---------------------------------------------------------------- export
\* s.date instanceof Date ? s.date.toISOString() : s.date
ExportDate(date) == IF date.kind = "Date" THEN StringOf(date.day) ELSE date

\* relocationConfig.relocationDate?.toISOString() ?? null
ConfigExportDate(date) == IF Truthy(date) THEN StringOf(date.day) ELSE NoDate

\* ------------------------------------------------- settings and the team
\* A name is the sequence of its characters; "" is the empty sequence.
Ann == <<"a">>
Bob == <<"b">>
Space == " "

\* What prompt() returns: null on cancel, else the text typed.
PromptNull == [cancelled |-> TRUE, text |-> <<>>]
Typed(text) == [cancelled |-> FALSE, text |-> text]
PromptInputs ==
  {PromptNull, Typed(<<>>), Typed(<<Space>>), Typed(Ann), Typed(<<Space>> \o Ann),
   Typed(Bob), Typed(Bob \o <<Space>>)}

\* list.filter((_, idx) => idx !== i)
RemoveAt(s, i) == SubSeq(s, 1, i - 1) \o SubSeq(s, i + 1, Len(s))

\* String.prototype.trim
RECURSIVE TrimStart(_)
TrimStart(text) ==
  IF text # <<>> /\ Head(text) = Space THEN TrimStart(Tail(text)) ELSE text

trim(text) == Reverse(TrimStart(Reverse(TrimStart(text))))

\* teamMembers.includes(name)
includes(list, name) == \E i \in 1..Len(list) : list[i] = name

\* settings.relocationDate ? new Date(settings.relocationDate) : null
LoadedDate(stored) == IF Truthy(stored) THEN DateOf(stored.day) ELSE NoDate

\* saveUserSettings(uid, data): the document of uid with the fields of
\* data written over it.
SaveUserSettings(uid, data) ==
  LET old == IF settings[uid].exists THEN settings[uid]
             ELSE [exists |-> TRUE, relocationDate |-> NoDate, teamMembers |-> <<>>]
  IN settings' = [settings EXCEPT ![uid] = Merge(old, data)]

\* loadUserSettings past its await: the settings of the user the load was
\* started for are put into the controller, whoever is signed in by now.
SettingsLoaded(l) ==
  /\ l \in loading
  /\ loading' = loading \ {l}
  /\ IF settings[l.owner].exists
     THEN /\ relocationDate' = LoadedDate(settings[l.owner].relocationDate)
          /\ teamMembers' = settings[l.owner].teamMembers
     ELSE UNCHANGED <<relocationDate, teamMembers>>
  /\ last' = "settingsLoaded"
  /\ UNCHANGED <<authUser, user, steps, isLoaded, unsubscribe, store, issuedIds, clock, subs,
                 dirty, nextSub, inflight, console, download, settings,
                 currentIndex, startDate, endDate, timeline>>
  /\ Render

\* handleRelocationConfigUpdate({...config, relocationDate: date})
HandleRelocationConfigUpdate(date) ==
  /\ date # relocationDate
  /\ relocationDate' = date
  /\ IF user # NoUser
     THEN SaveUserSettings(user, [relocationDate |-> ConfigExportDate(date),
                                  teamMembers |-> teamMembers])
     ELSE UNCHANGED settings
  /\ last' = "configSaved"
  /\ UNCHANGED <<authUser, user, steps, isLoaded, unsubscribe, store, issuedIds, clock, subs,
                 dirty, nextSub, inflight, console, download, teamMembers, loading,
                 currentIndex, startDate, endDate, timeline>>
  /\ Render

\* handleTeamMembersUpdate(members)
HandleTeamMembersUpdate(members) ==
  /\ teamMembers' = members
  /\ IF user # NoUser
     THEN SaveUserSettings(user, [teamMembers |-> members])
     ELSE UNCHANGED settings
  /\ UNCHANGED <<authUser, user, steps, isLoaded, unsubscribe, relocationDate, store,
                 issuedIds, clock, subs, dirty, nextSub, inflight, console, download, loading,
                 currentIndex, startDate, endDate, timeline>>
  /\ Render

\* The + Add button taking any name that is not empty.
AddTeamMemberUnchecked(input) ==
  /\ ~input.cancelled /\ input.text # <<>> /\ trim(input.text) # <<>>
  /\ HandleTeamMembersUpdate(Append(teamMembers, trim(input.text)))
  /\ last' = "addMember"

\* The + Add button of the header: prompt, then add the trimmed name unless
\* it is empty or already in the list.
AddTeamMember(input) ==
  /\ ~input.cancelled /\ input.text # <<>> /\ trim(input.text) # <<>>
  /\ ~includes(teamMembers, trim(input.text))
  /\ HandleTeamMembersUpdate(Append(teamMembers, trim(input.text)))
  /\ last' = "addMember"

\* The x button of the member at index i (1-based here).
RemoveTeamMember(i) ==
  /\ i \in 1..Len(teamMembers)
  /\ HandleTeamMembersUpdate(RemoveAt(teamMembers, i))
  /\ last' = "removeMember"

\* The assignee dropdown of a card: Unassigned, or one of the team members.
AssigneeChoices == {<<>>} \cup Range(teamMembers)

HandleAssign(id, member) ==
  /\ member \in AssigneeChoices
  /\ HandleUpdateStep(id, "assignee", member)

\* ------------------------------------------------------- budget inputs
\* The longest text typed into a budget input.
MaxTextLen == 2

\* The characters typed: a sign, a digit, and one that is neither.
TextChars == {"-", "2", "a"}

BudgetTexts == UNION {[1..n -> TextChars] : n \in 0..MaxTextLen}

IsDigit(c) == c \in {"0", "1", "2", "3", "4", "5", "6", "7", "8", "9"}

DigitValue(c) ==
  CASE c = "0" -> 0 [] c = "1" -> 1 [] c = "2" -> 2 [] c = "3" -> 3 [] c = "4" -> 4
    [] c = "5" -> 5 [] c = "6" -> 6 [] c = "7" -> 7 [] c = "8" -> 8 [] c = "9" -> 9

\* The longest prefix of `text` made of digits.
RECURSIVE DigitPrefix(_)
DigitPrefix(text) ==
  IF text = <<>> \/ ~IsDigit(Head(text)) THEN <<>>
  ELSE <<Head(text)>> \o DigitPrefix(Tail(text))

RECURSIVE DigitsValue(_)
DigitsValue(digits) ==
  IF digits = <<>> THEN 0
  ELSE 10 * DigitsValue(SubSeq(digits, 1, Len(digits) - 1)) + DigitValue(digits[Len(digits)])

\* parseFloat on a whole-number text: an optional sign, then the longest run
\* of digits; NaN when there is no digit.
parseFloat(text) ==
  LET negative == text # <<>> /\ Head(text) = "-"
      digits == DigitPrefix(IF negative THEN Tail(text) ELSE text)
  IN IF digits = <<>> THEN NaN
     ELSE Num(IF negative THEN 0 - DigitsValue(digits) ELSE DigitsValue(digits))

\* onChange of a budget input:
\* onUpdateStep(step.id, field, parseFloat(e.target.value) || 0)
HandleBudgetChange(id, field, text) ==
  HandleUpdateStep(id, field, OrZero(parseFloat(text)))

\* JSON.stringify of a number: NaN is written as null.
JsonNumber(x) == IF x.nan THEN "null" ELSE x.value

\* A task record that exports the actual budget as the optional one.
ExportTaskActualAsOptional(s) ==
  [id |-> s.id, status |-> s.status, date |-> ExportDate(s.date),
   budgetEstimated |-> s.budgetEstimated, budgetActual |-> s.budgetActual,
   budgetOptional |-> OrZero(ToNumber(s.budgetActual))]

\* One record of the tasks array of exportAsJSON.
ExportTask(s) ==
  [id |-> s.id, status |-> s.status, date |-> ExportDate(s.date),
   budgetEstimated |-> s.budgetEstimated, budgetActual |-> s.budgetActual,
   budgetOptional |-> OrZero(ToNumber(s.budgetDeferred))]

exportData ==
  [exported |-> TRUE,
   config |-> [relocationDate |-> ConfigExportDate(relocationDate)],
   summary |->
     [totalTasks |-> Len(steps),
      completedTasks |-> Len(SelectSeq(steps, LAMBDA s : s.status = "done")),
      inProgressTasks |-> Len(SelectSeq(steps, LAMBDA s : s.status = "progress")),
      todoTasks |-> Len(SelectSeq(steps, LAMBDA s : s.status = "todo")),
      budgetEstimated |-> JsonNumber(totalEst),
      budgetActual |-> JsonNumber(totalAct),
      budgetOptional |-> JsonNumber(totalDeferred),
      progress |-> ToString(progress) \o "%"],
   tasks |-> [i \in 1..Len(steps) |-> ExportTask(steps[i])]]

\* JSON.stringify then JSON.parse of a date field: null and strings come
\* back as they are, a Timestamp comes back as a plain object.
JsonDate(date) == IF date.kind = "Timestamp" THEN ObjectOf(date.day) ELSE date

\* JSON.parse(JSON.stringify(data)): numbers and strings are kept.
JsonRoundTrip(data) ==
  [data EXCEPT !.tasks = [i \in 1..Len(data.tasks) |->
                            [data.tasks[i] EXCEPT !.date = JsonDate(@)]]]

\* exportAsJSON: the file the browser downloads.
ExportAsJSON ==
  /\ download' = JsonRoundTrip(exportData)
  /\ last' = "export"
  /\ UNCHANGED <<authUser, user, steps, isLoaded, unsubscribe, relocationDate, view, store,
                 issuedIds, clock, subs, dirty, nextSub, inflight, console, teamMembers,
                 settings, loading, currentIndex, startDate, endDate, timeline>>

\* --------------------------------------------------------- carousel view
\* new Date(a.date).getTime() of a task with a date: the time of a Date or
\* of an ISO string, NaN for any other object.
CarouselTime(date) ==
  IF date.kind \in {"Date", "String"} THEN Num(date.day) ELSE NaN

\* aDate - bDate; sort takes a NaN result as 0.
CompareCarousel(a, b) ==
  LET aDate == CarouselTime(a.date)
      bDate == CarouselTime(b.date)
  IN IF aDate.nan \/ bDate.nan THEN 0 ELSE aDate.value - bDate.value

CarouselMatrix(s) ==
  [p \in (1..Len(s)) \X (1..Len(s)) |-> CompareCarousel(s[p[1]], s[p[2]])]

\* sortedSteps of CarouselView.
CarouselSteps(list) ==
  LET withDates == Filter(list, {s \in Range(list) : Truthy(s.date)})
      noDates == Filter(list, {s \in Range(list) : ~Truthy(s.date)})
  IN ArraySort(withDates, CarouselMatrix(withDates)) \o noDates

\* The carousel renders its card and controls: there is a task to show and
\* the render has found it.
CarouselShown ==
  /\ Len(CarouselSteps(steps)) > 0
  /\ currentIndex < Len(CarouselSteps(steps))

\* paginate(newDirection): the arrows, the swipe and the arrow keys.
Paginate(newDirection) ==
  /\ CarouselShown
  /\ currentIndex' =
       (currentIndex + newDirection + Len(CarouselSteps(steps))) % Len(CarouselSteps(steps))
  /\ last' = "paginate"
  /\ UNCHANGED <<authUser, user, steps, isLoaded, unsubscribe, relocationDate, view, store,
                 issuedIds, clock, subs, dirty, nextSub, inflight, console, download,
                 teamMembers, settings, loading, startDate, endDate, timeline>>

\* onClick of the dot indicator i (0-based).
DotClick(i) ==
  /\ CarouselShown
  /\ i \in 0..(Len(CarouselSteps(steps)) - 1)
  /\ currentIndex' = i
  /\ last' = "dot"
  /\ UNCHANGED <<authUser, user, steps, isLoaded, unsubscribe, relocationDate, view, store,
                 issuedIds, clock, subs, dirty, nextSub, inflight, console, download,
                 teamMembers, settings, loading, startDate, endDate, timeline>>

\* handleDelete of the card shown, confirmed on the card, then the
\* controller's own confirm.
CarouselDelete(confirmed) ==
  /\ CarouselShown
  /\ HandleDeleteStep(CarouselSteps(steps)[currentIndex + 1].id, confirmed)

\* ------------------------------------------------------ drag to reorder
\* sortedSteps of the timeline with drag handles.
DragSortedSteps(list) ==
  LET withDates == Filter(list, {s \in Range(list) : Truthy(s.date)})
      noDates == Filter(list, {s \in Range(list) : ~Truthy(s.date)})
  IN ArraySort(withDates, CarouselMatrix(withDates)) \o noDates

\* isBeforeRelocation of that timeline: true without a relocation day or
\* without a date, else new Date(step.date) < new Date(relocationDate).
DragIsBeforeRelocation(step, relocation) ==
  IF ~Truthy(relocation) \/ ~Truthy(step.date) THEN TRUE
  ELSE LET stepTime == CarouselTime(step.date)
           relocationTime == CarouselTime(relocation)
       IN ~stepTime.nan /\ ~relocationTime.nan /\ stepTime.value < relocationTime.value

\* The zones rendered: Before and After with a relocation day, else one list.
DragZones(relocation) == IF Truthy(relocation) THEN {"before", "after"} ELSE {"all"}

\* The cards of a zone, top to bottom; a card's index prop is its position
\* in this list.
DragZone(zone, sorted, relocation) ==
  IF zone = "before"
  THEN SelectSeq(sorted, LAMBDA s : Truthy(s.date) /\ DragIsBeforeRelocation(s, relocation))
  ELSE IF zone = "after"
  THEN SelectSeq(sorted, LAMBDA s : ~Truthy(s.date) \/ ~DragIsBeforeRelocation(s, relocation))
  ELSE sorted

\* newSteps.splice(index, 0, item) on a 0-based index.
Splice(list, index, item) ==
  IF index >= Len(list) THEN Append(list, item)
  ELSE SubSeq(list, 1, index) \o <<item>> \o SubSeq(list, index + 1, Len(list))

\* What handleSort of the timeline builds from dragItem and dragOverItem.
DraggedOrder(sorted, dragItem, dragOverItem) ==
  LET draggedItem == sorted[dragItem + 1]
      newSteps == RemoveAt(sorted, dragItem + 1)
  IN Splice(newSteps, dragOverItem, draggedItem)

\* The handle of card i of a zone is dragged over card j of the same zone
\* and dropped: onDragStart, onDragEnter, then onDragEnd = handleSort.
DragDrop(zone, i, j) ==
  LET sorted == DragSortedSteps(steps)
      cards == DragZone(zone, sorted, relocationDate)
  IN /\ zone \in DragZones(relocationDate)
     /\ i \in 0..(Len(cards) - 1)
     /\ j \in 0..(Len(cards) - 1)
     /\ HandleSort(DraggedOrder(sorted, i, j))

\* ------------------------------------------------------- timelineMonths
\* new Date(date.getFullYear(), date.getMonth(), 1): the first day of the
\* month of `time`, as year and 0-based month.
FirstOfMonth(time) == [year |-> getFullYear(time), month |-> getMonth(time)]

\* current < end on two first days of a month.
BeforeMonth(current, end) ==
  current.year < end.year \/ (current.year = end.year /\ current.month < end.month)

\* current <= end on two first days of a month.
NotAfterMonth(current, end) ==
  current.year < end.year \/ (current.year = end.year /\ current.month <= end.month)

\* current.setMonth(current.getMonth() + 1): month 12 is January of the
\* next year.
NextMonth(current) ==
  IF current.month + 1 > 11 THEN [year |-> current.year + 1, month |-> 0]
  ELSE [year |-> current.year, month |-> current.month + 1]

\* months.findIndex(m => same month and year as relocationDate): the
\* 0-based position of the first match, -1 without one.
FindMonthIndex(months, time) ==
  LET hits == {i \in 1..Len(months) : months[i].month = getMonth(time)
                                        /\ months[i].year = getFullYear(time)}
  IN IF hits = {} THEN -1 ELSE (CHOOSE i \in hits : \A k \in hits : i <= k) - 1

\* The unchanged rest of the state during the computation.
TimelineFrame ==
  UNCHANGED <<authUser, user, steps, isLoaded, unsubscribe, relocationDate, view, store,
              issuedIds, clock, subs, dirty, nextSub, inflight, console, download,
              teamMembers, settings, loading, currentIndex, startDate, endDate>>

\* timelineMonths up to the loop: the early return, or current and end.
TimelineMonthsStart ==
  /\ timeline.pc = "start"
  /\ LET start == parseDate(startDate)
         end == parseDate(endDate)
     IN timeline' = IF start = NullTime \/ end = NullTime THEN NoMonths
                    ELSE [pc |-> "loop", months |-> <<>>, relocationIndex |-> -1,
                          current |-> FirstOfMonth(start), end |-> FirstOfMonth(end)]
  /\ last' = "monthsStart"
  /\ TimelineFrame

\* One test of while (current <= end), with the body when it holds.
TimelineMonthsLoop ==
  /\ timeline.pc = "loop"
  /\ timeline' = IF NotAfterMonth(timeline.current, timeline.end)
                 THEN [timeline EXCEPT !.months = Append(@, timeline.current),
                                       !.current = NextMonth(@)]
                 ELSE [timeline EXCEPT !.pc = "find"]
  /\ last' = "monthsLoop"
  /\ TimelineFrame

\* The search of the relocation month and the return.
TimelineMonthsReturn ==
  /\ timeline.pc = "find"
  /\ LET relocation == parseDate(relocationDate)
     IN timeline' = [pc |-> "done", months |-> timeline.months,
                     relocationIndex |-> IF relocation = NullTime THEN -1
                                         ELSE FindMonthIndex(timeline.months, relocation)]
  /\ last' = "monthsReturn"
  /\ TimelineFrame

\* ------------------------------------------------------------ the store

ErrorMessage(req) ==
  IF req.op = "patch" /\ DOMAIN req.updates = {"orderIndex"} THEN "Error saving order"
  ELSE IF req.op = "patch" THEN "Error saving to Firebase"
  ELSE IF req.op = "delete" THEN "Error deleting from Firebase"
  ELSE "Error adding step"

\* The store carries out a request; the awaiting handler has nothing left to do.
RemoteApply(i) ==
  /\ i \in 1..Len(inflight)
  /\ Allowed(inflight[i])
  /\ LET req == inflight[i]
     IN /\ IF req.op = "create"
           THEN \E id \in NewIds \ issuedIds :
                  /\ store' = store \cup {Merge([id |-> id, userId |-> req.uid,
                                                 status |-> "todo", date |-> NoDate,
                                                 budgetEstimated |-> 0, budgetActual |-> 0,
                                                 budgetDeferred |-> 0, orderIndex |-> 0,
                                                 createdAt |-> clock], req.updates)}
                  /\ issuedIds' = issuedIds \cup {id}
                  /\ clock' = clock + 1
           ELSE IF req.op = "patch"
           THEN /\ store' = {IF d.id = req.id THEN Merge(d, ToStored(req.updates)) ELSE d :
                               d \in store}
                /\ UNCHANGED <<issuedIds, clock>>
           ELSE /\ store' = {d \in store : d.id # req.id}
                /\ UNCHANGED <<issuedIds, clock>>
        /\ dirty' = dirty \cup Woken(req.uid)
  /\ inflight' = RemoveAt(inflight, i)
  /\ last' = "remoteOk"
  /\ UNCHANGED <<authUser, user, steps, isLoaded, unsubscribe, relocationDate, subs, nextSub,
                 console>>
  /\ Render
  /\ UNCHANGED <<download, teamMembers, settings, loading, currentIndex, startDate,
                 endDate, timeline>>

\* A catch that puts the collection back to what the store holds.
RemoteFailRollback(i) ==
  /\ i \in 1..Len(inflight)
  /\ inflight' = RemoveAt(inflight, i)
  /\ console' = ErrorMessage(inflight[i])
  /\ steps' = SnapshotSteps(store, user)
  /\ last' = "remoteFail"
  /\ UNCHANGED <<authUser, user, isLoaded, unsubscribe, relocationDate, store,
                 issuedIds, clock, subs, dirty, nextSub>>
  /\ Render
  /\ UNCHANGED <<download, teamMembers, settings, loading, currentIndex, startDate,
                 endDate, timeline>>

\* The request is rejected; the handler's catch logs it.
RemoteFail(i) ==
  /\ i \in 1..Len(inflight)
  /\ inflight' = RemoveAt(inflight, i)
  /\ console' = ErrorMessage(inflight[i])
  /\ last' = "remoteFail"
  /\ UNCHANGED <<authUser, user, steps, isLoaded, unsubscribe, relocationDate, store,
                 issuedIds, clock, subs, dirty, nextSub>>
  /\ Render
  /\ UNCHANGED <<download, teamMembers, settings, loading, currentIndex, startDate,
                 endDate, timeline>>

Next ==
  \/ \E u \in Users : AuthSignedIn(u)
  \/ AuthSignedOut
  \/ \E sub \in subs : SnapshotPush(sub)
  \/ \E s \in Range(steps), field \in Fields : \E value \in ValuesOf(field) :
       HandleUpdateStep(s.id, field, value)
  \/ \E s \in Range(steps) : HandleToggleStatus(s.id)
  \/ \E s \in Range(steps), confirmed \in BOOLEAN : HandleDeleteStep(s.id, confirmed)
  \/ HandleAddStep
  \/ \E date \in ConfigDates : HandleConfigUpdate(date)
  \/ \E i \in 1..MaxInflight : RemoteApply(i)
  \/ \E i \in 1..MaxInflight : RemoteFail(i)

Spec == Init /\ [][Next]_vars

\* ----------------------------------------------- a session with tasks
\* A task the subscription has delivered: created by handleAddStep as the
\* i-th task of u1, its date set since.
Task(i, date) ==
  [id |-> i, userId |-> "u1", status |-> "todo", date |-> date, budgetEstimated |-> 0,
   budgetActual |-> 0, budgetDeferred |-> 0, orderIndex |-> i - 1, createdAt |-> i]

\* The document the store holds for a local task.
StoredDoc(task) == Merge(task, ToStored([date |-> task.date]))

\* u1 is signed in, the subscription is open and has delivered `list`; the
\* controller holds `members`, the settings documents are `stored` and the
\* loads `pending` have not resolved.
SessionOf(list, relocation, members, stored, pending) ==
  /\ authUser = "u1"
  /\ user = "u1"
  /\ steps = list
  /\ isLoaded = TRUE
  /\ unsubscribe = 1
  /\ relocationDate = relocation
  /\ view = RenderTimeline(list, relocation)
  /\ store = {StoredDoc(list[i]) : i \in 1..Len(list)}
  /\ issuedIds = {list[i].id : i \in 1..Len(list)}
  /\ clock = Len(list) + 1
  /\ subs = {[sid |-> 1, owner |-> "u1"]}
  /\ dirty = {}
  /\ nextSub = 2
  /\ inflight = <<>>
  /\ console = ""
  /\ download = NoDownload
  /\ last = "init"
  /\ teamMembers = members
  /\ settings = stored
  /\ loading = pending
  /\ currentIndex = 0
  /\ startDate = NoDate
  /\ endDate = NoDate
  /\ timeline = NoMonths

\* The same with no team, no settings document and no load under way.
SessionWith(list, relocation) ==
  SessionOf(list, relocation, <<>>, [u \in Users |-> NoSettings], {})

InitSession == SessionWith(<<Task(1, NoDate), Task(2, TimestampOf(1))>>, NoDate)

NextSession ==
  \/ AuthSignedOut
  \/ \E sub \in subs : SnapshotPush(sub)
  \/ \E s \in Range(steps), field \in Fields : \E value \in ValuesOf(field) :
       HandleUpdateStep(s.id, field, value)
  \/ \E s \in Range(steps) : HandleToggleStatus(s.id)
  \/ \E s \in Range(steps), confirmed \in BOOLEAN : HandleDeleteStep(s.id, confirmed)
  \/ \E i \in 1..MaxInflight : RemoteApply(i)
  \/ \E i \in 1..MaxInflight : RemoteFail(i)

SpecSession == InitSession /\ [][NextSession]_vars

\* ------------------------------------- the organizer on every task list
\* The dates a delivered or locally edited task can carry.
TaskDates == {NoDate} \cup {DateOf(d) : d \in Days} \cup {TimestampOf(d) : d \in Days}

InitOrganizer ==
  \E n \in 0..MaxListLen : \E dates \in [1..n -> TaskDates] : \E relocation \in ConfigDates :
    SessionWith([i \in 1..n |-> Task(i, dates[i])], relocation)

NextOrganizer == \E date \in ConfigDates : HandleConfigUpdate(date)

SpecOrganizer == InitOrganizer /\ [][NextOrganizer]_vars

\* ------------------------------------- month groups on every task list
\* Days on both sides of a month boundary and of a year boundary:
\* 1970-01-02, 1970-02-01, 1971-01-01, 1971-01-02.
MonthDays == {1, 31, 365, 366}
MonthDates == {NoDate} \cup {DateOf(d) : d \in MonthDays} \cup {TimestampOf(d) : d \in MonthDays}

InitMonths ==
  \E n \in 0..MaxListLen : \E dates \in [1..n -> MonthDates] : \E relocation \in ConfigDates :
    SessionWith([i \in 1..n |-> Task(i, dates[i])], relocation)

SpecMonths == InitMonths /\ [][NextOrganizer]_vars

\* --------------------------------------- the KPIs on every task list
\* u1 signed in with up to MaxKpiLen tasks delivered, in every combination
\* of statuses and of budgets drawn from BudgetValues.
BudgetFields == {"budgetEstimated", "budgetActual", "budgetDeferred"}
BudgetValues == {0, 2}

KpiTask(i, status, budgets) ==
  Merge(Task(i, NoDate),
        [status |-> status, budgetEstimated |-> budgets["budgetEstimated"],
         budgetActual |-> budgets["budgetActual"],
         budgetDeferred |-> budgets["budgetDeferred"]])

InitKpi ==
  \E n \in 0..MaxKpiLen :
    \E statuses \in [1..n -> Statuses], budgets \in [1..n -> [BudgetFields -> BudgetValues]] :
      SessionWith([i \in 1..n |-> KpiTask(i, statuses[i], budgets[i])], NoDate)

NextKpi ==
  \/ \E s \in Range(steps) : HandleToggleStatus(s.id)
  \/ \E i \in 1..MaxInflight : RemoteApply(i)

SpecKpi == InitKpi /\ [][NextKpi]_vars

\* ------------------------------------------------------- budget edits
\* u1 signed in; the subscription has delivered up to MaxBudgetLen tasks whose
\* documents hold an amount in a budget field or lack the field.
MaxBudgetLen == 1
DeliveredBudgets == {Undefined, 0, 2}

InitBudget ==
  \E n \in 0..MaxBudgetLen :
    \E budgets \in [1..n -> [BudgetFields -> DeliveredBudgets]] :
      SessionWith([i \in 1..n |-> KpiTask(i, "todo", budgets[i])], NoDate)

NextBudget ==
  \/ \E s \in Range(steps), field \in BudgetFields, text \in BudgetTexts :
       HandleBudgetChange(s.id, field, text)
  \/ \E i \in 1..MaxInflight : RemoteApply(i)

SpecBudget == InitBudget /\ [][NextBudget]_vars

\* ----------------------------------------------------- team and assignee
\* u1 has just signed in: the first snapshot has delivered one task, the
\* settings load is under way. u1's settings document holds a team list
\* this program saved, or does not exist.
Names == {Ann, Bob}
TeamLists == {<<>>, <<Ann>>, <<Bob>>, <<Ann, Bob>>, <<Bob, Ann>>}
StoredSettings(members) == [exists |-> TRUE, relocationDate |-> NoDate, teamMembers |-> members]
TeamTask(i, assignee) == Task(i, NoDate) @@ [assignee |-> assignee]

InitTeam ==
  \E doc \in {NoSettings} \cup {StoredSettings(m) : m \in TeamLists} :
    SessionOf(<<TeamTask(1, <<>>)>>, NoDate, <<>>,
              [u \in Users |-> IF u = "u1" THEN doc ELSE NoSettings],
              {[sid |-> 1, owner |-> "u1"]})

NextTeam ==
  \/ \E u \in Users : AuthSignedIn(u)
  \/ AuthSignedOut
  \/ \E sub \in subs : SnapshotPush(sub)
  \/ \E l \in loading : SettingsLoaded(l)
  \/ \E input \in PromptInputs : user # NoUser /\ AddTeamMember(input)
  \/ \E i \in 1..Len(teamMembers) : user # NoUser /\ RemoveTeamMember(i)
  \/ \E s \in Range(steps), member \in AssigneeChoices :
       user # NoUser /\ HandleAssign(s.id, member)
  \/ \E i \in 1..MaxInflight : RemoteApply(i)

SpecTeam == InitTeam /\ [][NextTeam]_vars

\* ------------------------------------------------- settings across users
\* Init with the settings documents left open.
InitSignedOut ==
  /\ authUser = NoUser
  /\ user = NoUser
  /\ steps = <<>>
  /\ isLoaded = FALSE
  /\ unsubscribe = NoSub
  /\ relocationDate = NoDate
  /\ view = RenderTimeline(<<>>, NoDate)
  /\ store = {}
  /\ issuedIds = {}
  /\ clock = 1
  /\ subs = {}
  /\ dirty = {}
  /\ nextSub = 1
  /\ inflight = <<>>
  /\ console = ""
  /\ download = NoDownload
  /\ last = "init"
  /\ teamMembers = <<>>
  /\ loading = {}
  /\ currentIndex = 0
  /\ startDate = NoDate
  /\ endDate = NoDate
  /\ timeline = NoMonths

\* Nobody is signed in yet. u1 has a settings document with a relocation
\* day and a team; u2 has one of its own or none.
InitSettings ==
  \E doc \in {NoSettings, StoredSettings(<<Bob>>)} :
    /\ InitSignedOut
    /\ settings = [u \in Users |->
                     IF u = "u1"
                     THEN [StoredSettings(<<Ann>>) EXCEPT !.relocationDate = StringOf(1)]
                     ELSE doc]

NextSettings ==
  \/ \E u \in Users : AuthSignedIn(u)
  \/ AuthSignedOut
  \/ \E sub \in subs : SnapshotPush(sub)
  \/ \E l \in loading : SettingsLoaded(l)
  \/ \E date \in ConfigDates : user # NoUser /\ HandleRelocationConfigUpdate(date)
  \/ \E input \in PromptInputs : user # NoUser /\ AddTeamMember(input)
  \/ \E i \in 1..Len(teamMembers) : user # NoUser /\ RemoveTeamMember(i)

SpecSettings == InitSettings /\ [][NextSettings]_vars

\* ------------------------------------------------- drags within a zone
\* u1 signed in; the subscription has delivered up to MaxDragLen tasks with
\* a date or without; a relocation day is set or not.
MaxDragLen == 3
DragDates == {NoDate, DateOf(1), DateOf(2)}

InitDrag ==
  \E n \in 0..MaxDragLen : \E dates \in [1..n -> DragDates] :
    \E relocation \in {NoDate, DateOf(2)} :
      SessionWith([i \in 1..n |-> Task(i, dates[i])], relocation)

NextDrag ==
  \/ /\ inflight = <<>>
     /\ \E zone \in {"before", "after", "all"} :
          \E i \in 0..(MaxDragLen - 1), j \in 0..(MaxDragLen - 1) : DragDrop(zone, i, j)
  \/ \E i \in 1..MaxDragLen : RemoteApply(i)

SpecDrag == InitDrag /\ [][NextDrag]_vars

\* ------------------------------------ timelineMonths on every window
\* The three dates of the configuration are unset or one of: 1970-01-02,
\* 1970-02-01, 1970-02-15, 1971-01-01, 1971-02-05; the view is about to
\* compute timelineMonths.
TimelineDays == {1, 31, 45, 365, 400}
TimelineDates == {NoDate} \cup {DateOf(d) : d \in TimelineDays}

InitTimeline ==
  \E start \in TimelineDates, end \in TimelineDates, relocation \in TimelineDates :
    /\ authUser = "u1"
    /\ user = "u1"
    /\ steps = <<>>
    /\ isLoaded = TRUE
    /\ unsubscribe = 1
    /\ relocationDate = relocation
    /\ view = RenderTimeline(<<>>, relocation)
    /\ store = {}
    /\ issuedIds = {}
    /\ clock = 1
    /\ subs = {[sid |-> 1, owner |-> "u1"]}
    /\ dirty = {}
    /\ nextSub = 2
    /\ inflight = <<>>
    /\ console = ""
    /\ download = NoDownload
    /\ last = "init"
    /\ teamMembers = <<>>
    /\ settings = [u \in Users |-> NoSettings]
    /\ loading = {}
    /\ currentIndex = 0
    /\ startDate = start
    /\ endDate = end
    /\ timeline = [pc |-> "start"]

NextTimeline ==
  \/ TimelineMonthsStart
  \/ TimelineMonthsLoop
  \/ TimelineMonthsReturn

SpecTimeline == InitTimeline /\ [][NextTimeline]_vars

\* A computation that has started runs on: rendering is one synchronous
\* call of the single thread.
LiveSpecTimeline == SpecTimeline /\ WF_vars(NextTimeline)

\* ------------------------------------------------------------- carousel
\* u1 signed in; the subscription has delivered up to MaxCarouselLen tasks,
\* with a date or without; the carousel has just been mounted.
MaxCarouselLen == 3
CarouselDates == {NoDate, DateOf(1), DateOf(2)}

InitCarousel ==
  \E n \in 0..MaxCarouselLen : \E dates \in [1..n -> CarouselDates] :
    SessionWith([i \in 1..n |-> Task(i, dates[i])], NoDate)

NextCarousel ==
  \/ \E newDirection \in {-1, 1} : Paginate(newDirection)
  \/ \E i \in 0..(MaxCarouselLen - 1) : DotClick(i)
  \/ \E confirmed \in BOOLEAN : CarouselDelete(confirmed)
  \/ \E sub \in subs : SnapshotPush(sub)
  \/ \E i \in 1..MaxInflight : RemoteApply(i)

SpecCarousel == InitCarousel /\ [][NextCarousel]_vars

\* ------------------------------------------------------- manual reorder
\* u1 signed in; the subscription has delivered up to MaxSortLen tasks,
\* each with an orderIndex or (a document of an older version) without.
OrderedTask(i, orderIndex) == Merge(Task(i, NoDate), [orderIndex |-> orderIndex])

InitReorder ==
  \E n \in 0..MaxSortLen : \E orders \in [1..n -> {NoOrder} \cup 0..(n - 1)] :
    SessionWith(SnapshotSteps({OrderedTask(i, orders[i]) : i \in 1..n}, "u1"), NoDate)

\* The lists a drag can hand to onSort: the tasks in another order.
Reorderings(list) ==
  {[i \in 1..Len(list) |-> list[p[i]]] : p \in Permutations(1..Len(list))}

NextReorder ==
  \/ /\ inflight = <<>>
     /\ \E newSteps \in Reorderings(steps) : HandleSort(newSteps)
  \/ \E i \in 1..MaxSortLen : RemoteApply(i)
  \/ \E i \in 1..MaxSortLen : RemoteFail(i)

SpecReorder == InitReorder /\ [][NextReorder]_vars

\* ------------------------------------------- creation after deletions
\* u1 signed in with two tasks created one after the other (orderIndex 0
\* and 1); their auto-ids are larger than the id still to be assigned.
EarlierTask(i) == Merge(Task(i, NoDate), [orderIndex |-> i - 2, createdAt |-> i - 1])

InitCreate == SessionWith(<<EarlierTask(2), EarlierTask(3)>>, NoDate)

NextCreate ==
  \/ \E sub \in subs : SnapshotPush(sub)
  \/ \E s \in Range(steps), confirmed \in BOOLEAN : HandleDeleteStep(s.id, confirmed)
  \/ HandleAddStep
  \/ \E i \in 1..MaxInflight : RemoteApply(i)

SpecCreate == InitCreate /\ [][NextCreate]_vars

\* The platform runs the callback of an open listener that has a snapshot
\* to deliver.
LiveSpecCreate == SpecCreate /\ WF_vars(\E sub \in subs : SnapshotPush(sub))

\* ----------------------------------------- edits, writes and pushes
\* u1 signed in with no task yet. Edits of the date may be issued
\* while an earlier patch is in flight, so two patches can reach the store
\* in either order; tasks are created and deleted; every request that
\* settles succeeds.
MaxSyncInflight == 2

InitSync == SessionWith(<<>>, NoDate)

NextSync ==
  \/ \E sub \in subs : SnapshotPush(sub)
  \/ \E s \in Range(steps), value \in EditDates :
       HandleUpdateStepUpTo(MaxSyncInflight, s.id, "date", value)
  \/ \E s \in Range(steps), confirmed \in BOOLEAN : HandleDeleteStep(s.id, confirmed)
  \/ HandleAddStep
  \/ \E i \in 1..MaxSyncInflight : RemoteApply(i)

SpecSync == InitSync /\ [][NextSync]_vars

\* The platform runs the callback of an open listener that has a snapshot
\* to deliver.
LiveSpecSync == SpecSync /\ WF_vars(\E sub \in subs : SnapshotPush(sub))

\* ------------------------------------------- what a subscription delivers
\* Nobody is signed in yet; the store holds up to MaxSortLen documents of
\* u1, each with or without an orderIndex, created in any order.
StoredTask(i, orderIndex, createdAt) ==
  Merge(Task(i, NoDate), [orderIndex |-> orderIndex, createdAt |-> createdAt])

InitDelivery ==
  \E n \in 0..MaxSortLen :
    \E orders \in [1..n -> {NoOrder} \cup 0..(n - 1)], created \in [1..n -> 1..n] :
      /\ authUser = NoUser
      /\ user = NoUser
      /\ steps = <<>>
      /\ isLoaded = FALSE
      /\ unsubscribe = NoSub
      /\ relocationDate = NoDate
      /\ view = RenderTimeline(<<>>, NoDate)
      /\ store = {StoredTask(i, orders[i], created[i]) : i \in 1..n}
      /\ issuedIds = 1..n
      /\ clock = n + 1
      /\ subs = {}
      /\ dirty = {}
      /\ nextSub = 1
      /\ inflight = <<>>
      /\ console = ""
      /\ download = NoDownload
      /\ last = "init"
      /\ teamMembers = <<>>
      /\ settings = [u \in Users |-> NoSettings]
      /\ loading = {}
      /\ currentIndex = 0
      /\ startDate = NoDate
      /\ endDate = NoDate
      /\ timeline = NoMonths

NextDelivery ==
  \/ \E u \in Users : AuthSignedIn(u)
  \/ AuthSignedOut
  \/ \E sub \in subs : SnapshotPush(sub)

SpecDelivery == InitDelivery /\ [][NextDelivery]_vars

\* ------------------------------------- handlers around a sign-out
\* The session of InitCreate, with signOut() and the auth listener as two
\* steps: between them the controller still shows the user's tasks.
NextAdapter ==
  \/ SignOut
  \/ AuthCallbackNull
  \/ \E s \in Range(steps), field \in Fields : \E value \in ValuesOf(field) :
       HandleUpdateStep(s.id, field, value)
  \/ \E s \in Range(steps) : HandleToggleStatus(s.id)
  \/ \E s \in Range(steps), confirmed \in BOOLEAN : HandleDeleteStep(s.id, confirmed)
  \/ HandleAddStep
  \/ \E i \in 1..MaxInflight : RemoteApply(i)

SpecAdapter == InitCreate /\ [][NextAdapter]_vars

\* ------------------------------------------------- two users, one store
\* From the initial state either user signs in, creates, edits, reorders
\* and deletes; every request the store accepts is carried out.
NextOwner ==
  \/ \E u \in Users : AuthSignedIn(u)
  \/ AuthSignedOut
  \/ \E sub \in subs : SnapshotPush(sub)
  \/ \E s \in Range(steps), field \in Fields : \E value \in ValuesOf(field) :
       HandleUpdateStep(s.id, field, value)
  \/ \E s \in Range(steps) : HandleToggleStatus(s.id)
  \/ /\ inflight = <<>>
     /\ \E newSteps \in Reorderings(steps) : HandleSort(newSteps)
  \/ \E s \in Range(steps), confirmed \in BOOLEAN : HandleDeleteStep(s.id, confirmed)
  \/ HandleAddStep
  \/ \E i \in 1..MaxSortLen : RemoteApply(i)

SpecOwner == Init /\ [][NextOwner]_vars

\* ------------------------------------------ the export of every task list
\* u1 signed in with up to MaxExportLen tasks in every combination of
\* status, budgets and date: none, a Date of a local edit, the store's
\* Timestamp, or an ISO string.
ExportDates == {NoDate, DateOf(1), TimestampOf(1), StringOf(1)}

InitExport ==
  \E n \in 0..MaxExportLen :
    \E statuses \in [1..n -> Statuses], budgets \in [1..n -> [BudgetFields -> BudgetValues]],
       dates \in [1..n -> ExportDates], relocation \in ConfigDates :
      SessionWith([i \in 1..n |->
                     Merge(KpiTask(i, statuses[i], budgets[i]), [date |-> dates[i]])],
                  relocation)

NextExport == ExportAsJSON

SpecExport == InitExport /\ [][NextExport]_vars

\* ================================================================= claims
Ids(list) == {list[i].id : i \in 1..Len(list)}
TaskFields ==
  {"id", "userId", "status", "date", "budgetEstimated", "budgetActual", "budgetDeferred",
   "orderIndex", "createdAt"}

\* C1: at most one task subscription is open, it belongs to the signed-in
\* user, and none is open while nobody is signed in.
C1_OneSubscriptionOfSignedInUser ==
  /\ Cardinality(subs) <= 1
  /\ \A s \in subs : s.owner = user
  /\ user = NoUser => subs = {}

\* C2: every task of the local collection is owned by the signed-in user,
\* and the local collection is empty while nobody is signed in.
C2_LocalTasksOwnedBySignedInUser ==
  /\ \A i \in 1..Len(steps) : steps[i].userId = user
  /\ user = NoUser => steps = <<>>

\* C3: updateField(taskId, field, value) sets exactly that field of exactly
\* that task in the local collection, leaves every other task, every other
\* field and the order as they were, and, when a user is signed in, issues
\* exactly one remote patch for that task carrying only that field.
C3_UpdateFieldFrame ==
  [][last' = "update" =>
       \E id \in Ids(steps), field \in Fields : \E value \in ValuesOf(field) :
         /\ Len(steps') = Len(steps)
         /\ \A i \in 1..Len(steps) :
              IF steps[i].id = id
              THEN /\ steps'[i][field] = value
                   /\ \A k \in TaskFields \ {field} : steps'[i][k] = steps[i][k]
              ELSE steps'[i] = steps[i]
         /\ IF user # NoUser
            THEN /\ Len(inflight') = Len(inflight) + 1
                 /\ SubSeq(inflight', 1, Len(inflight)) = inflight
                 /\ inflight'[Len(inflight')].op = "patch"
                 /\ inflight'[Len(inflight')].id = id
                 /\ DOMAIN inflight'[Len(inflight')].updates = {field}
                 /\ inflight'[Len(inflight')].updates[field] = value
            ELSE inflight' = inflight]_vars

\* C3 witness: a signed-in user has just set the date of one of two tasks,
\* the other task has no date, and the patch is on its way.
C3_Witness ==
  /\ last = "update"
  /\ user # NoUser
  /\ Len(steps) = 2
  /\ \E i, j \in 1..2 : steps[i].date = DateOf(1) /\ steps[j].date = NoDate
  /\ Len(inflight) = 1
  /\ inflight[1].op = "patch"

\* C4: when a remote patch, delete or create fails, the failure is logged
\* and the local collection stays as the optimistic step left it; settling a
\* request, either way, never replaces the local collection.
C4_FailureKeepsOptimisticState ==
  [][/\ last' = "remoteFail" =>
          /\ steps' = steps
          /\ view' = view
          /\ console' \in {"Error saving to Firebase", "Error deleting from Firebase",
                           "Error adding step"}
          /\ <<user, isLoaded>>' = <<user, isLoaded>>
     /\ last' = "remoteOk" => steps' = steps]_vars

\* C4 witness: a patch has just failed and the local collection still shows
\* the edit the store never took.
C4_Witness ==
  /\ last = "remoteFail"
  /\ console = "Error saving to Firebase"
  /\ user # NoUser
  /\ steps # <<>>
  /\ steps # SnapshotSteps(store, user)
  /\ \E i \in 1..Len(steps) : steps[i].date = DateOf(1)

\* C5: once confirmed, deleteTask removes the task from the local collection
\* in the step that issues the remote delete, and no settling of the delete
\* (success or failure) puts it back; without confirmation the local
\* collection is unchanged and no remote delete is issued.
C5_DeleteLocalFirst ==
  [][/\ last' = "deleteConfirmed" =>
          \E id \in Ids(steps) :
            /\ Ids(steps') = Ids(steps) \ {id}
            /\ Len(steps') = Len(steps) - 1
            /\ \A i, j \in 1..Len(steps') :
                 i < j => \E a, b \in 1..Len(steps) :
                            a < b /\ steps[a] = steps'[i] /\ steps[b] = steps'[j]
            /\ \A i \in 1..Len(steps') : \E a \in 1..Len(steps) : steps[a] = steps'[i]
            /\ IF user # NoUser
               THEN /\ Len(inflight') = Len(inflight) + 1
                    /\ inflight'[Len(inflight')].op = "delete"
                    /\ inflight'[Len(inflight')].id = id
               ELSE inflight' = inflight
     /\ last' = "deleteDeclined" => steps' = steps /\ inflight' = inflight /\ store' = store
     /\ last' \in {"remoteOk", "remoteFail"} => steps' = steps]_vars

\* C5 witness: a confirmed delete has removed one of two tasks and its remote
\* delete has not been settled: the store still holds the task.
C5_Witness ==
  /\ last = "deleteConfirmed"
  /\ Len(steps) = 1
  /\ Len(inflight) = 1
  /\ inflight[1].op = "delete"
  /\ \E d \in store : d.id = inflight[1].id
  /\ inflight[1].id \notin Ids(steps)

\* C6: createTask() while nobody is signed in leaves the local collection
\* unchanged and hands nothing to the persistence adapter.
C6_CreateNeedsUser ==
  [][(user = NoUser /\ last' \in {"add", "addRejected"}) =>
       /\ last' = "addRejected"
       /\ steps' = steps
       /\ inflight' = inflight
       /\ store' = store
       /\ console' = console]_vars

\* C6 witness: createTask() has just been turned away.
C6_Witness ==
  /\ last = "addRejected"
  /\ user = NoUser
  /\ inflight = <<>>

\* The status cycle as the data model states it.
CycleSuccessor == [todo |-> "progress", progress |-> "done", done |-> "todo"]

\* C7: toggleStatus moves a task's status to its successor in the cycle
\* todo -> progress -> done -> todo and changes no other task; three toggles
\* of one status give it back.
C7_ToggleCycle ==
  [][last' = "toggle" =>
       \E id \in Ids(steps) :
         /\ Len(steps') = Len(steps)
         /\ \A i \in 1..Len(steps) :
              IF steps[i].id = id
              THEN /\ steps[i].status \in Statuses
                   /\ steps'[i].status = CycleSuccessor[steps[i].status]
                   /\ next(next(steps'[i].status)) = steps[i].status
              ELSE steps'[i] = steps[i]]_vars

\* C7 witness: a toggle has just brought a task from done back to todo, and
\* the patch saying so is on its way.
C7_Witness ==
  /\ last = "toggle"
  /\ Len(inflight) = 1
  /\ "status" \in DOMAIN inflight[1].updates
  /\ inflight[1].updates["status"] = "todo"
  /\ \E i \in 1..Len(steps) : steps[i].id = inflight[1].id /\ steps[i].status = "todo"

Elements(list) == {list[i] : i \in 1..Len(list)}
Disjoint3(a, b, c) ==
  /\ Elements(a) \cap Elements(b) = {}
  /\ Elements(a) \cap Elements(c) = {}
  /\ Elements(b) \cap Elements(c) = {}
NoRepeat(list) == Cardinality(Elements(list)) = Len(list)
Buckets == <<view.beforeSteps, view.afterSteps, view.undatedSteps>>

\* C8 as stated: for every task set and every relocation date, set or
\* unset, the buckets before, after and undated are pairwise disjoint and
\* their union is the task set, no task twice and none left out.
C8_PartitionAlways ==
  /\ Disjoint3(Buckets[1], Buckets[2], Buckets[3])
  /\ \A b \in 1..3 : NoRepeat(Buckets[b])
  /\ Elements(Buckets[1]) \cup Elements(Buckets[2]) \cup Elements(Buckets[3]) = Elements(steps)

\* C8 as amended: the buckets are always pairwise disjoint and without
\* repeats; with a relocation date set their union is the task set; with
\* none set, before and after are empty and undated holds exactly the tasks
\* without a date.
C8_PartitionWhenRelocationSet ==
  /\ Disjoint3(Buckets[1], Buckets[2], Buckets[3])
  /\ \A b \in 1..3 : NoRepeat(Buckets[b])
  /\ Elements(Buckets[3]) = {t \in Elements(steps) : t.date = NoDate}
  /\ IF relocationDate # NoDate
     THEN Elements(Buckets[1]) \cup Elements(Buckets[2]) \cup Elements(Buckets[3])
            = Elements(steps)
     ELSE Buckets[1] = <<>> /\ Buckets[2] = <<>>

\* C8 witness: a relocation date is set and each of the three buckets holds a task.
C8_Witness ==
  /\ relocationDate # NoDate
  /\ last = "config"
  /\ \A b \in 1..3 : Buckets[b] # <<>>

\* C9: a task is undetermined exactly when it has no date or no relocation
\* date is set; otherwise it is before exactly when its date is strictly
\* earlier than the relocation date, so a task on the relocation day is after.
C9_Classification ==
  \A t \in Elements(steps) :
    /\ (t.date = NoDate \/ relocationDate = NoDate)
         <=> (t \notin Elements(view.beforeSteps) /\ t \notin Elements(view.afterSteps))
    /\ (t.date # NoDate /\ relocationDate # NoDate) =>
         /\ t \in Elements(view.beforeSteps) <=> t.date.day < relocationDate.day
         /\ t \in Elements(view.afterSteps) <=> t.date.day >= relocationDate.day
    /\ isBeforeRelocation(t, relocationDate) = "null"
         <=> (t.date = NoDate \/ relocationDate = NoDate)

\* C9 witness: a task dated on the relocation day sits in the after bucket,
\* next to one that is before.
C9_Witness ==
  /\ last = "config"
  /\ relocationDate # NoDate
  /\ \E t \in Elements(view.afterSteps) : t.date.day = relocationDate.day
  /\ view.beforeSteps # <<>>

Dated(list) == {i \in 1..Len(list) : list[i].date # NoDate}
\* The position in the input of the task at a position of the output.
InputPosition(t) == CHOOSE i \in 1..Len(steps) : steps[i] = t

\* C10: sortChronologically returns a permutation of the input in which
\* every dated task precedes every undated task, dated tasks are in
\* non-decreasing date order, and tasks with equal dates, and undated tasks,
\* keep their input order.
C10_ChronologicalSort ==
  LET out == view.sortedSteps
  IN /\ Len(out) = Len(steps)
     /\ Elements(out) = Elements(steps)
     /\ \A i, j \in 1..Len(out) :
          i < j =>
            /\ out[i].date = NoDate => out[j].date = NoDate
            /\ (out[i].date # NoDate /\ out[j].date # NoDate)
                 => out[i].date.day <= out[j].date.day
            /\ (out[i].date # NoDate /\ out[j].date # NoDate
                  /\ out[i].date.day = out[j].date.day)
                 => InputPosition(out[i]) < InputPosition(out[j])
            /\ (out[i].date = NoDate /\ out[j].date = NoDate)
                 => InputPosition(out[i]) < InputPosition(out[j])

\* C10 witness: an undated task comes first in the input, two tasks of one
\* day follow, a task of an earlier day comes last, and the sort has moved them.
C10_Witness ==
  /\ last = "config"
  /\ Len(steps) = 4
  /\ steps[1].date = NoDate
  /\ view.sortedSteps # steps
  /\ \E i, j \in Dated(steps) : i < j /\ steps[i].date.day = steps[j].date.day
  /\ \E i, j \in Dated(steps) : i < j /\ steps[i].date.day > steps[j].date.day

\* C11: the month groups of the sorted dated tasks, concatenated in order,
\* are that list again; every task of a group has the group's year and
\* month; adjacent groups differ; no (year, month) has two groups; and no
\* undated task is in a group.
RECURSIVE Concat(_)
Concat(lists) == IF lists = <<>> THEN <<>> ELSE Head(lists) \o Concat(Tail(lists))

C11_GroupByMonth ==
  LET groups == view.allStepsGrouped
      input == SelectSeq(view.sortedSteps, LAMBDA t : t.date # NoDate)
  IN /\ Concat([g \in 1..Len(groups) |-> groups[g].steps]) = input
     /\ \A g \in 1..Len(groups) : \A t \in Range(groups[g].steps) :
          /\ Truthy(t.date)
          /\ getFullYear(parseDate(t.date)) = groups[g].year
          /\ getMonth(parseDate(t.date)) = groups[g].month
     /\ \A g \in 1..(Len(groups) - 1) :
          <<groups[g].year, groups[g].month>> # <<groups[g + 1].year, groups[g + 1].month>>
     /\ \A g, h \in 1..Len(groups) :
          (groups[g].year = groups[h].year /\ groups[g].month = groups[h].month) => g = h

\* Reached: after a configuration edit, a list with an undated task whose
\* dated tasks fall in January 1970 and, two of them, in January 1971.
C11_Witness ==
  /\ last = "config"
  /\ \E t \in Range(steps) : ~Truthy(t.date)
  /\ Len(view.allStepsGrouped) = 2
  /\ view.allStepsGrouped[1].year = 1970 /\ view.allStepsGrouped[1].month = 0
  /\ view.allStepsGrouped[2].year = 1971 /\ view.allStepsGrouped[2].month = 0
  /\ Len(view.allStepsGrouped[2].steps) = 2

\* C12: in every state the KPI totals are the sums of the three budget
\* fields over the local tasks and percentDone is
\* round(100 * doneCount / totalCount), all 0 for the empty collection.
RECURSIVE SumOver(_, _)
SumOver(list, field) ==
  IF list = <<>> THEN 0 ELSE Head(list)[field] + SumOver(Tail(list), field)

DoneCount == Cardinality({i \in 1..Len(steps) : steps[i].status = "done"})

C12_Kpis ==
  /\ totalEst = Num(SumOver(steps, "budgetEstimated"))
  /\ totalAct = Num(SumOver(steps, "budgetActual"))
  /\ totalDeferred = Num(SumOver(steps, "budgetDeferred"))
  /\ Len(steps) = 0 =>
       (progress = 0 /\ totalEst = Num(0) /\ totalAct = Num(0) /\ totalDeferred = Num(0))
  /\ Len(steps) > 0 =>
       \* progress is the integer nearest to 100 * done / total, halves up
       /\ 2 * Len(steps) * progress <= 200 * DoneCount + Len(steps)
       /\ 200 * DoneCount + Len(steps) < 2 * Len(steps) * (progress + 1)

\* Reached: a toggle leaves three tasks with two of them done (66.67
\* rounds to 67) and three different budget totals.
C12_Witness ==
  /\ last = "toggle"
  /\ Len(steps) = 3
  /\ DoneCount = 2
  /\ progress = 67
  /\ totalEst = Num(4) /\ totalAct = Num(2) /\ totalDeferred = Num(6)

\* C13: a reorder sets the local collection to the new list and issues one
\* patch per task, in list order, setting that task's orderIndex to its
\* 0-based position; once all of them have been applied the stored
\* orderIndex values are 0..n-1 in the new order and the subscription
\* delivers the tasks in that order.
IdsInOrder(list) == [i \in 1..Len(list) |-> list[i].id]

C14_CreatedTaskIsLast ==
  [][(last' = "remoteOk" /\ issuedIds' # issuedIds) =>
       LET delivered == SnapshotSteps(store', user)
       IN delivered[Len(delivered)].id \in issuedIds' \ issuedIds]_vars

\* Two tasks of a list, in list order, as C15 wants them: by orderIndex
\* when both have one, else newest-created first.
HasOrder(t) == t.orderIndex # NoOrder
PairwiseOrdered(list) ==
  \A i, j \in 1..Len(list) :
    i < j => IF HasOrder(list[i]) /\ HasOrder(list[j])
             THEN list[i].orderIndex <= list[j].orderIndex
             ELSE list[i].createdAt >= list[j].createdAt

\* C15 as stated: every list a subscription delivers is pairwise ordered,
\* for every mix of tasks with and without an orderIndex.
C15_DeliveredOrderAnyMix ==
  [][(last' = "push") => PairwiseOrdered(steps')]_vars

\* C15: a list a subscription delivers in which every task has an
\* orderIndex is in ascending orderIndex order, and one in which no task
\* has an orderIndex is newest-created first.
C15_DeliveredOrder ==
  [][(/\ last' = "push"
      /\ \/ \A t \in Range(steps') : HasOrder(t)
         \/ \A t \in Range(steps') : ~HasOrder(t)) => PairwiseOrdered(steps')]_vars

\* Reached: a subscription has delivered three tasks, all with an
\* orderIndex, in an order that is not the snapshot's.
C15_Witness ==
  /\ last = "push"
  /\ \A t \in Range(steps) : HasOrder(t)
  /\ IdsInOrder(steps) = <<2, 3, 1>>

\* C16: creating a task adds nothing to the local collection, neither
\* when the request is issued nor when the store carries it out; the
\* stored task has status todo, budgets 0 and no date; a task enters the
\* local collection only by a subscription push; and with the
\* subscription open a stored task is eventually in the local collection
\* (unless the user has deleted it again).
StoredIds == {d.id : d \in store}
DeleteIssued(id) == \E k \in 1..Len(inflight) : inflight[k].op = "delete" /\ inflight[k].id = id

C16_CreatedTaskArrivesByPush ==
  /\ [][(last' = "add") => (steps' = steps /\ Len(inflight') = Len(inflight) + 1)]_vars
  /\ [][(issuedIds' # issuedIds) =>
         /\ steps' = steps
         /\ \A d \in store' \ store :
              /\ d.status = "todo" /\ d.date = NoDate
              /\ d.budgetEstimated = 0 /\ d.budgetActual = 0 /\ d.budgetDeferred = 0]_vars
  /\ [][(Ids(steps') \ Ids(steps) # {}) => last' = "push"]_vars
  /\ \A id \in NewIds :
       (id \in StoredIds) ~> (id \in Ids(steps) \/ id \notin StoredIds \/ DeleteIssued(id))

\* Reached: the task created in the session has been delivered by a push.
C16_Witness ==
  /\ last = "push"
  /\ \E t \in Range(steps) :
       /\ t.id \in NewIds
       /\ t.status = "todo" /\ t.date = NoDate
       /\ t.budgetEstimated = 0 /\ t.budgetActual = 0 /\ t.budgetDeferred = 0

\* C17: a create, patch or delete that reaches the persistence adapter
\* while the identity provider has no current user fails with 'User not
\* authenticated', hands nothing to the document store and leaves the
\* store unchanged.
AdapterCalled ==
  \/ last' \in {"update", "toggle", "deleteConfirmed"}
  \/ last' = "add" /\ user # NoUser

C17_AdapterNeedsCurrentUser ==
  [][(AdapterCalled /\ user # NoUser /\ authUser = NoUser) =>
       /\ inflight' = inflight
       /\ store' = store
       /\ console' \in {Logged(m, NotAuthenticated) :
                          m \in {"Error saving to Firebase", "Error deleting from Firebase",
                                 "Error adding step"}}]_vars

\* Reached: a delete confirmed between signOut() and the auth listener.
C17_Witness ==
  /\ authUser = NoUser
  /\ user # NoUser
  /\ last = "deleteConfirmed"
  /\ console = Logged("Error deleting from Firebase", NotAuthenticated)
  /\ inflight = <<>>
  /\ Cardinality(store) = 2

\* C18: the data addStep writes carries the userId of the user signed in
\* at the call, whatever userId the caller passed; the stored task gets
\* that owner; and no update, toggle, reorder or delete, issued or
\* carried out, changes the id or the userId of a task that stays.
Owners(tasks) == {<<t.id, t.userId>> : t \in tasks}

C18_OwnerAndIdFixed ==
  /\ [](\A u \in Users, passed \in Users :
          AddStepData(StepDefaults(0) @@ [userId |-> passed], u).userId = u)
  /\ [][(last' = "add") =>
         /\ inflight'[Len(inflight')].uid = authUser
         /\ inflight'[Len(inflight')].updates.userId = authUser]_vars
  /\ [][\A d \in store' :
          d.id \notin StoredIds =>
            \E k \in 1..Len(inflight) :
              inflight[k].op = "create" /\ inflight[k].uid = d.userId]_vars
  /\ [][/\ Owners(store') \subseteq Owners(store) \cup {o \in Owners(store') : o[1] \notin StoredIds}
        /\ Cardinality(Owners(store')) = Cardinality(store')]_vars
  /\ [][(last' \in {"update", "toggle"}) =>
         [i \in 1..Len(steps') |-> <<steps'[i].id, steps'[i].userId>>]
           = [i \in 1..Len(steps) |-> <<steps[i].id, steps[i].userId>>]]_vars
  /\ [][(last' = "sort") =>
         (Owners(Range(steps')) = Owners(Range(steps)) /\ Len(steps') = Len(steps))]_vars
  /\ [][(last' = "deleteConfirmed") => Owners(Range(steps')) \subseteq Owners(Range(steps))]_vars

\* Reached: the store has carried out a status patch on a task that u2
\* created.
C18_Witness ==
  /\ last = "remoteOk"
  /\ \E d \in store : d.userId = "u2" /\ d.status = "progress"

\* C19: the exported file read back has as many tasks as the local
\* collection, the same three budget totals and the same number of tasks
\* per status, and its summary agrees with its tasks array.
CountStatus(list, status) == Cardinality({i \in 1..Len(list) : list[i].status = status})

C19_ExportRoundTrip ==
  [][(last' = "export") =>
       LET file == download'
       IN /\ Len(file.tasks) = Len(steps)
          /\ SumOver(file.tasks, "budgetEstimated") = SumOver(steps, "budgetEstimated")
          /\ SumOver(file.tasks, "budgetActual") = SumOver(steps, "budgetActual")
          /\ SumOver(file.tasks, "budgetOptional") = SumOver(steps, "budgetDeferred")
          /\ \A status \in Statuses :
               CountStatus(file.tasks, status) = CountStatus(steps, status)
          /\ file.summary.totalTasks = Len(file.tasks)
          /\ file.summary.completedTasks = CountStatus(file.tasks, "done")
          /\ file.summary.inProgressTasks = CountStatus(file.tasks, "progress")
          /\ file.summary.todoTasks = CountStatus(file.tasks, "todo")
          /\ file.summary.budgetEstimated = SumOver(file.tasks, "budgetEstimated")
          /\ file.summary.budgetActual = SumOver(file.tasks, "budgetActual")
          /\ file.summary.budgetOptional = SumOver(file.tasks, "budgetOptional")]_vars

\* Reached: an export of two tasks, one done and one in progress, with
\* three different budget totals.
C19_Witness ==
  /\ last = "export"
  /\ download.exported
  /\ Len(download.tasks) = 2
  /\ download.summary.completedTasks = 1 /\ download.summary.inProgressTasks = 1
  /\ download.summary.budgetEstimated = 4
  /\ download.summary.budgetActual = 0
  /\ download.summary.budgetOptional = 2

\* C20: in the exported file every task's date is null or an ISO-8601
\* string, whichever representation the date has in the local collection.
C20_ExportedDatesAreIso ==
  [][(last' = "export") =>
       \A i \in 1..Len(download'.tasks) :
         download'.tasks[i].date.kind \in {"null", "String"}]_vars

\* The sum of a budget field over a list, an absent field counting as 0.
AmountOrZero(v) == IF v = Undefined THEN 0 ELSE v

RECURSIVE SumOrZero(_, _)
SumOrZero(list, field) ==
  IF list = <<>> THEN 0
  ELSE AmountOrZero(Head(list)[field]) + SumOrZero(Tail(list), field)

C22_BudgetsNonNegative ==
  \A i \in 1..Len(steps) : \A field \in BudgetFields :
    steps[i][field] # Undefined => steps[i][field] >= 0


\* C23: every task's assignee is empty or one of the current team members.
C23_AssigneeIsTeamMember ==
  \A i \in 1..Len(steps) :
    steps[i].assignee = <<>> \/ includes(teamMembers, steps[i].assignee)

\* C24: the team list never holds a name twice, an addition puts the new
\* name after the names already there and a removal takes one name out,
\* both leaving the other names in their order.
C24_TeamIsOrderedSet ==
  /\ NoRepeat(teamMembers)
  /\ [][/\ NoRepeat(teamMembers')
        /\ last' = "addMember" =>
             /\ Len(teamMembers') = Len(teamMembers) + 1
             /\ SubSeq(teamMembers', 1, Len(teamMembers)) = teamMembers
        /\ last' = "removeMember" =>
             \E i \in 1..Len(teamMembers) :
               teamMembers' = SubSeq(teamMembers, 1, i - 1)
                                \o SubSeq(teamMembers, i + 1, Len(teamMembers))]_vars

\* A member was removed from a loaded list of two and the other is left.
C24_Witness ==
  /\ last = "removeMember"
  /\ teamMembers = <<Bob>>
  /\ settings["u1"].exists /\ settings["u1"].teamMembers = <<Bob>>


\* The team list the settings document of u holds, none counting as empty.
StoredMembers(u) == IF settings[u].exists THEN settings[u].teamMembers ELSE <<>>
StoredRelocation(u) ==
  IF settings[u].exists THEN LoadedDate(settings[u].relocationDate) ELSE NoDate

\* C25: the relocation day and the team list the controller holds are those
\* of the signed-in user's settings (or still empty), they are empty when
\* nobody is signed in, and saving the relocation day writes no team list
\* into the user's settings other than the one they held (or none).
C25_SettingsBelongToUser ==
  /\ [](user = NoUser => (teamMembers = <<>> /\ relocationDate = NoDate))
  /\ [](user # NoUser =>
          /\ teamMembers \in {<<>>, StoredMembers(user)}
          /\ relocationDate \in {NoDate, StoredRelocation(user)})
  /\ [][(last' = "configSaved" /\ user # NoUser) =>
          StoredMembers(user)' \in {<<>>, StoredMembers(user)}]_vars


\* C26: the desktop timeline shows every task of the collection on exactly
\* one card, whether or not a relocation day is set and whether or not any
\* task has a date.
C26_EveryTaskOnOneCard ==
  LET cards == DesktopCards(view, relocationDate)
  IN /\ Len(cards) = Len(steps)
     /\ {cards[i].id : i \in 1..Len(cards)} = {steps[i].id : i \in 1..Len(steps)}


\* C27: whenever the carousel has a task to show, currentIndex is the
\* index of one of its cards (0 <= currentIndex < length), so the card
\* shown is never a missing task; next and previous wrap around at both ends.
C27_CurrentIndexValid ==
  /\ [](Len(CarouselSteps(steps)) > 0 =>
          (0 <= currentIndex /\ currentIndex < Len(CarouselSteps(steps))))
  /\ [][last' = "paginate" =>
          \/ currentIndex' = currentIndex + 1
          \/ currentIndex' = currentIndex - 1
          \/ (currentIndex = Len(CarouselSteps(steps)) - 1 /\ currentIndex' = 0)
          \/ (currentIndex = 0 /\ currentIndex' = Len(CarouselSteps(steps)) - 1)]_vars


\* The order in which `card` has taken the place of `target` and every
\* other card has kept its order.
MovedTo(sorted, card, target) ==
  LET from == CHOOSE k \in 1..Len(sorted) : sorted[k] = card
      to == CHOOSE k \in 1..Len(sorted) : sorted[k] = target
  IN Splice(RemoveAt(sorted, from), to - 1, card)

\* The orders a drag within one zone may hand to onSort.
ZoneDrags ==
  LET sorted == DragSortedSteps(steps)
  IN UNION {LET cards == DragZone(zone, sorted, relocationDate)
            IN {MovedTo(sorted, cards[i], cards[j]) : i \in 1..Len(cards), j \in 1..Len(cards)} :
            zone \in DragZones(relocationDate)}

\* C28: a drag of a card onto a card of the same zone hands to the
\* controller an order in which a card of that zone has moved to the place
\* of a card of that zone and every other card has kept its order.
C28_DragMovesTheDraggedCard ==
  [][last' = "sort" => steps' \in ZoneDrags]_vars


\* The user has stopped editing: only writes reaching the store and pushes
\* happen.
Stopped == last \in {"init", "push", "remoteOk"}
Synced == steps = SnapshotSteps(store, user)

\* C29: with the subscription open, if from some point on the user issues
\* no edit and every request issued has succeeded, then from some point on
\* the local collection is what the store holds for the user, whatever the
\* order in which the patches reached the store.
C29_ConvergesToStore ==
  /\ []((inflight = <<>> /\ dirty = {}) => Synced)
  /\ (Stopped /\ inflight = <<>>) ~> (Synced \/ ~Stopped \/ inflight # <<>>)

\* Reached: two patches of one task were in flight together, both have
\* been applied and the push that followed has been delivered.
C29_Witness ==
  /\ last = "push"
  /\ inflight = <<>> /\ dirty = {}
  /\ Synced
  /\ \E t \in Range(steps) : t.id \in NewIds /\ t.date = TimestampOf(1)


\* The months of a window counted from year 0: 12 * year + month.
MonthNumber(time) == 12 * getFullYear(time) + getMonth(time)
MonthOfNumber(n) == [year |-> n \div 12, month |-> n % 12]

\* One entry per calendar month from the month of start to the month of
\* end, ascending; none when a date is unset or start's month is after end's.
ExpectedMonths ==
  IF ~Truthy(startDate) \/ ~Truthy(endDate) THEN <<>>
  ELSE LET lo == MonthNumber(parseDate(startDate))
           hi == MonthNumber(parseDate(endDate))
       IN IF lo > hi THEN <<>> ELSE [k \in 1..(hi - lo + 1) |-> MonthOfNumber(lo + k - 1)]

\* The 0-based position of the relocation month among them, -1 when the
\* relocation date is unset or its month is not among them.
ExpectedRelocationIndex ==
  IF ~Truthy(relocationDate) \/ ExpectedMonths = <<>> THEN -1
  ELSE LET lo == MonthNumber(parseDate(startDate))
           hi == MonthNumber(parseDate(endDate))
           at == MonthNumber(parseDate(relocationDate))
       IN IF lo <= at /\ at <= hi THEN at - lo ELSE -1

\* C30: timelineMonths terminates, and what it returns is one entry per
\* calendar month from the start month to the end month inclusive, in
\* ascending order (no month when a date is unset or the start month is
\* after the end month), with relocationIndex the position of the
\* relocation month among them, or -1.
C30_TimelineMonths ==
  /\ [](timeline.pc = "done" =>
          /\ timeline.months = ExpectedMonths
          /\ timeline.relocationIndex = ExpectedRelocationIndex)
  /\ (timeline.pc = "start") ~> (timeline.pc = "done")

\* Reached: a window from January 1970 to February 1971 has been laid
\* out as fourteen months and the relocation month January 1971 found at
\* position 12.
C30_Witness ==
  /\ timeline.pc = "done"
  /\ startDate = DateOf(1) /\ endDate = DateOf(400) /\ relocationDate = DateOf(365)
  /\ Len(timeline.months) = 14
  /\ timeline.relocationIndex = 12

====
